---- MODULE Spec2Model ----
(***************************************************************************)
(* PolicyRadar keyword extraction: the PolicyKeywords module of            *)
(* src/policy-keywords.js (extractKeywords) and the v6.2 module of         *)
(* src/unnamed/part_008 (extractFromText).                                 *)
(*                                                                         *)
(* A JavaScript string is modelled as the sequence of its characters, each *)
(* character a one-character string, so that toLowerCase, indexOf,         *)
(* includes, split and the regular expressions of the source are computed  *)
(* on characters exactly as the source computes them.                      *)
(***************************************************************************)
EXTENDS Integers, Sequences, FiniteSets, TLC

\* ------------------------------------------------------------------------
\* Characters and the String.prototype methods the source uses
\* ------------------------------------------------------------------------
UpperAlpha == <<"A","B","C","D","E","F","G","H","I","J","K","L","M",
                "N","O","P","Q","R","S","T","U","V","W","X","Y","Z">>

LowerAlpha == <<"a","b","c","d","e","f","g","h","i","j","k","l","m",
                "n","o","p","q","r","s","t","u","v","w","x","y","z">>

UpperSet == {UpperAlpha[i] : i \in DOMAIN UpperAlpha}

LowerSet == {LowerAlpha[i] : i \in DOMAIN LowerAlpha}

DigitSet == {"0","1","2","3","4","5","6","7","8","9"}

\* \w of a JavaScript regular expression: [A-Za-z0-9_]
WordChars == UpperSet \cup LowerSet \cup DigitSet \cup {"_"}

\* \s of a JavaScript regular expression (the ASCII part)
SpaceChars == {" ", "\t", "\n", "\r", "\f"}

LowerOfChar == [c \in UpperSet |-> LowerAlpha[CHOOSE i \in DOMAIN UpperAlpha : UpperAlpha[i] = c]]

UpperOfChar == [c \in LowerSet |-> UpperAlpha[CHOOSE i \in DOMAIN LowerAlpha : LowerAlpha[i] = c]]

toLowerCase(s) ==
  IF s = <<>> THEN <<>>
  ELSE [i \in 1..Len(s) |-> IF s[i] \in UpperSet THEN LowerOfChar[s[i]] ELSE s[i]]

toUpperCase(s) ==
  IF s = <<>> THEN <<>>
  ELSE [i \in 1..Len(s) |-> IF s[i] \in LowerSet THEN UpperOfChar[s[i]] ELSE s[i]]

Min(S) == CHOOSE x \in S : \A y \in S : x <= y

\* needle occurs in hay at the 0-based position at
matchesAt(hay, needle, at) ==
  /\ at >= 0
  /\ at + Len(needle) <= Len(hay)
  /\ \A k \in 1..Len(needle) : hay[at + k] = needle[k]

\* String.prototype.indexOf(needle, from): 0-based position or -1
indexOf(hay, needle, from) ==
  LET hits == {at \in from..(Len(hay) - Len(needle)) : matchesAt(hay, needle, at)}
  IN  IF hits = {} THEN -1 ELSE Min(hits)

\* String.prototype.includes(needle)
includes(hay, needle) ==
  \E at \in 0..(Len(hay) - Len(needle)) : matchesAt(hay, needle, at)

endsWith(s, suffix) == matchesAt(s, suffix, Len(s) - Len(suffix))

startsWith(s, prefix) == matchesAt(s, prefix, 0)

\* String.prototype.slice(from) with 0 <= from
sliceFrom(s, from) == IF from >= Len(s) THEN <<>> ELSE SubSeq(s, from + 1, Len(s))

\* text.replace(/[^\w\s-]/g, ' ')
replaceNonWord(s) ==
  IF s = <<>> THEN <<>>
  ELSE [i \in 1..Len(s) |->
          IF s[i] \in WordChars \cup SpaceChars \cup {"-"} THEN s[i] ELSE " "]

\* String.prototype.split(/\s+/): the pieces between maximal whitespace runs;
\* leading or trailing whitespace leaves an empty first or last piece.
RECURSIVE splitFrom(_, _, _)
splitFrom(s, i, cur) ==
  IF i > Len(s) THEN <<cur>>
  ELSE IF s[i] \in SpaceChars
       THEN IF i > 1 /\ s[i - 1] \in SpaceChars
            THEN splitFrom(s, i + 1, cur)
            ELSE <<cur>> \o splitFrom(s, i + 1, <<>>)
       ELSE splitFrom(s, i + 1, Append(cur, s[i]))

splitWhitespace(s) == splitFrom(s, 1, <<>>)

\* /^\d+$/.test(word)
isNumeric(word) == Len(word) >= 1 /\ \A i \in 1..Len(word) : word[i] \in DigitSet

\* src/policy-keywords.js:22 POLICY_PHRASES, in table order
POLICY_PHRASES == <<
  <<"D","i","g","i","t","a","l"," ","I","n","d","i","a">>,
  <<"M","a","k","e"," ","i","n"," ","I","n","d","i","a">>,
  <<"S","t","a","r","t","u","p"," ","I","n","d","i","a">>,
  <<"S","k","i","l","l"," ","I","n","d","i","a">>,
  <<"A","t","m","a","n","i","r","b","h","a","r"," ","B","h","a","r","a","t">>,
  <<"S","w","a","c","h","h"," ","B","h","a","r","a","t">>,
  <<"A","y","u","s","h","m","a","n"," ","B","h","a","r","a","t">>,
  <<"J","a","n"," ","D","h","a","n">>,
  <<"P","M"," ","K","i","s","a","n">>,
  <<"P","M"," ","A","w","a","s">>,
  <<"P","M"," ","U","j","j","w","a","l","a">>,
  <<"P","M"," ","M","u","d","r","a">>,
  <<"P","M"," ","V","i","s","h","w","a","k","a","r","m","a">>,
  <<"N","a","t","i","o","n","a","l"," ","E","d","u","c","a","t","i","o","n"," ","P","o","l","i","c","y">>,
  <<"N","e","w"," ","E","d","u","c","a","t","i","o","n"," ","P","o","l","i","c","y">>,
  <<"N","E","P"," ","2","0","2","0">>,
  <<"P","r","o","d","u","c","t","i","o","n"," ","L","i","n","k","e","d"," ","I","n","c","e","n","t","i","v","e">>,
  <<"P","L","I"," ","S","c","h","e","m","e">>,
  <<"S","m","a","r","t"," ","C","i","t","i","e","s">>,
  <<"S","a","g","a","r","m","a","l","a">>,
  <<"B","h","a","r","a","t","m","a","l","a">>,
  <<"G","a","t","i"," ","S","h","a","k","t","i">>,
  <<"N","a","t","i","o","n","a","l"," ","I","n","f","r","a","s","t","r","u","c","t","u","r","e"," ","P","i","p","e","l","i","n","e">>,
  <<"U","n","i","f","i","e","d"," ","P","a","y","m","e","n","t","s"," ","I","n","t","e","r","f","a","c","e">>,
  <<"U","P","I">>,
  <<"A","a","d","h","a","a","r">>,
  <<"D","i","g","i","L","o","c","k","e","r">>,
  <<"O","N","D","C">>,
  <<"O","p","e","n"," ","N","e","t","w","o","r","k"," ","f","o","r"," ","D","i","g","i","t","a","l"," ","C","o","m","m","e","r","c","e">>,
  <<"D","i","g","i","t","a","l"," ","P","u","b","l","i","c"," ","I","n","f","r","a","s","t","r","u","c","t","u","r","e">>,
  <<"I","n","d","i","a"," ","S","t","a","c","k">>,
  <<"A","c","c","o","u","n","t"," ","A","g","g","r","e","g","a","t","o","r">>,
  <<"C","B","D","C">>,
  <<"D","i","g","i","t","a","l"," ","R","u","p","e","e">>,
  <<"e","-","R","U","P","I">>,
  <<"C","o","W","I","N">>,
  <<"A","y","u","s","h","m","a","n"," ","B","h","a","r","a","t"," ","D","i","g","i","t","a","l"," ","M","i","s","s","i","o","n">>,
  <<"A","B","D","M">>,
  <<"R","e","s","e","r","v","e"," ","B","a","n","k"," ","o","f"," ","I","n","d","i","a">>,
  <<"R","B","I">>,
  <<"S","E","B","I">>,
  <<"I","R","D","A","I">>,
  <<"P","F","R","D","A">>,
  <<"I","B","B","I">>,
  <<"I","n","s","o","l","v","e","n","c","y"," ","a","n","d"," ","B","a","n","k","r","u","p","t","c","y">>,
  <<"I","B","C">>,
  <<"N","C","L","T">>,
  <<"N","C","L","A","T">>,
  <<"F","o","r","e","i","g","n"," ","D","i","r","e","c","t"," ","I","n","v","e","s","t","m","e","n","t">>,
  <<"F","D","I">>,
  <<"F","o","r","e","i","g","n"," ","P","o","r","t","f","o","l","i","o"," ","I","n","v","e","s","t","m","e","n","t">>,
  <<"F","P","I">>,
  <<"M","o","n","e","t","a","r","y"," ","P","o","l","i","c","y"," ","C","o","m","m","i","t","t","e","e">>,
  <<"M","P","C">>,
  <<"R","e","p","o"," ","R","a","t","e">>,
  <<"C","R","R">>,
  <<"S","L","R">>,
  <<"N","o","n","-","P","e","r","f","o","r","m","i","n","g"," ","A","s","s","e","t">>,
  <<"N","P","A">>,
  <<"A","s","s","e","t"," ","R","e","c","o","n","s","t","r","u","c","t","i","o","n">>,
  <<"A","R","C">>,
  <<"P","a","y","m","e","n","t"," ","A","g","g","r","e","g","a","t","o","r">>,
  <<"P","a","y","m","e","n","t"," ","G","a","t","e","w","a","y">>,
  <<"N","B","F","C">>,
  <<"H","F","C">>,
  <<"G","o","o","d","s"," ","a","n","d"," ","S","e","r","v","i","c","e","s"," ","T","a","x">>,
  <<"G","S","T">>,
  <<"G","S","T"," ","C","o","u","n","c","i","l">>,
  <<"I","G","S","T">>,
  <<"C","G","S","T">>,
  <<"S","G","S","T">>,
  <<"I","n","c","o","m","e"," ","T","a","x">>,
  <<"D","i","r","e","c","t"," ","T","a","x">>,
  <<"I","n","d","i","r","e","c","t"," ","T","a","x">>,
  <<"T","D","S">>,
  <<"T","C","S">>,
  <<"A","d","v","a","n","c","e"," ","P","r","i","c","i","n","g"," ","A","g","r","e","e","m","e","n","t">>,
  <<"A","P","A">>,
  <<"T","r","a","n","s","f","e","r"," ","P","r","i","c","i","n","g">>,
  <<"F","a","c","e","l","e","s","s"," ","A","s","s","e","s","s","m","e","n","t">>,
  <<"V","i","v","a","d"," ","s","e"," ","V","i","s","h","w","a","s">>,
  <<"L","a","b","o","u","r"," ","C","o","d","e">>,
  <<"L","a","b","o","u","r"," ","L","a","w">>,
  <<"I","n","d","u","s","t","r","i","a","l"," ","R","e","l","a","t","i","o","n","s"," ","C","o","d","e">>,
  <<"C","o","d","e"," ","o","n"," ","W","a","g","e","s">>,
  <<"C","o","d","e"," ","o","n"," ","S","o","c","i","a","l"," ","S","e","c","u","r","i","t","y">>,
  <<"O","c","c","u","p","a","t","i","o","n","a","l"," ","S","a","f","e","t","y"," ","C","o","d","e">>,
  <<"E","P","F","O">>,
  <<"E","m","p","l","o","y","e","e","s"," ","P","r","o","v","i","d","e","n","t"," ","F","u","n","d">>,
  <<"E","S","I","C">>,
  <<"E","m","p","l","o","y","e","e","s"," ","S","t","a","t","e"," ","I","n","s","u","r","a","n","c","e">>,
  <<"M","i","n","i","m","u","m"," ","W","a","g","e">>,
  <<"L","i","v","i","n","g"," ","W","a","g","e">>,
  <<"G","i","g"," ","W","o","r","k","e","r">>,
  <<"P","l","a","t","f","o","r","m"," ","W","o","r","k","e","r">>,
  <<"F","i","x","e","d"," ","T","e","r","m"," ","E","m","p","l","o","y","m","e","n","t">>,
  <<"C","o","n","t","r","a","c","t"," ","L","a","b","o","u","r">>,
  <<"D","i","g","i","t","a","l"," ","P","e","r","s","o","n","a","l"," ","D","a","t","a"," ","P","r","o","t","e","c","t","i","o","n">>,
  <<"D","P","D","P"," ","A","c","t">>,
  <<"D","P","D","P","A">>,
  <<"D","a","t","a"," ","P","r","o","t","e","c","t","i","o","n">>,
  <<"D","a","t","a"," ","P","r","i","v","a","c","y">>,
  <<"D","a","t","a"," ","L","o","c","a","l","i","z","a","t","i","o","n">>,
  <<"I","T"," ","A","c","t">>,
  <<"I","n","f","o","r","m","a","t","i","o","n"," ","T","e","c","h","n","o","l","o","g","y"," ","A","c","t">>,
  <<"I","T"," ","R","u","l","e","s">>,
  <<"I","n","t","e","r","m","e","d","i","a","r","y"," ","G","u","i","d","e","l","i","n","e","s">>,
  <<"S","a","f","e"," ","H","a","r","b","o","u","r">>,
  <<"F","o","r","e","i","g","n"," ","T","r","a","d","e"," ","P","o","l","i","c","y">>,
  <<"F","T","P">>,
  <<"E","x","p","o","r","t"," ","P","r","o","m","o","t","i","o","n">>,
  <<"S","p","e","c","i","a","l"," ","E","c","o","n","o","m","i","c"," ","Z","o","n","e">>,
  <<"S","E","Z">>,
  <<"E","x","p","o","r","t"," ","O","r","i","e","n","t","e","d"," ","U","n","i","t">>,
  <<"E","O","U">>,
  <<"D","G","F","T">>,
  <<"D","i","r","e","c","t","o","r"," ","G","e","n","e","r","a","l"," ","o","f"," ","F","o","r","e","i","g","n"," ","T","r","a","d","e">>,
  <<"A","n","t","i","-","D","u","m","p","i","n","g">>,
  <<"C","o","u","n","t","e","r","v","a","i","l","i","n","g"," ","D","u","t","y">>,
  <<"S","a","f","e","g","u","a","r","d"," ","D","u","t","y">>,
  <<"F","r","e","e"," ","T","r","a","d","e"," ","A","g","r","e","e","m","e","n","t">>,
  <<"F","T","A">>,
  <<"C","o","m","p","r","e","h","e","n","s","i","v","e"," ","E","c","o","n","o","m","i","c"," ","P","a","r","t","n","e","r","s","h","i","p">>,
  <<"R","e","g","i","o","n","a","l"," ","C","o","m","p","r","e","h","e","n","s","i","v","e"," ","E","c","o","n","o","m","i","c"," ","P","a","r","t","n","e","r","s","h","i","p">>,
  <<"R","C","E","P">>,
  <<"N","a","t","i","o","n","a","l"," ","G","r","e","e","n"," ","T","r","i","b","u","n","a","l">>,
  <<"N","G","T">>,
  <<"E","n","v","i","r","o","n","m","e","n","t"," ","C","l","e","a","r","a","n","c","e">>,
  <<"E","n","v","i","r","o","n","m","e","n","t","a","l"," ","I","m","p","a","c","t"," ","A","s","s","e","s","s","m","e","n","t">>,
  <<"E","I","A">>,
  <<"C","o","a","s","t","a","l"," ","R","e","g","u","l","a","t","i","o","n"," ","Z","o","n","e">>,
  <<"C","R","Z">>,
  <<"R","e","n","e","w","a","b","l","e"," ","E","n","e","r","g","y">>,
  <<"S","o","l","a","r"," ","E","n","e","r","g","y">>,
  <<"W","i","n","d"," ","E","n","e","r","g","y">>,
  <<"G","r","e","e","n"," ","H","y","d","r","o","g","e","n">>,
  <<"N","a","t","i","o","n","a","l"," ","S","o","l","a","r"," ","M","i","s","s","i","o","n">>,
  <<"G","r","e","e","n"," ","E","n","e","r","g","y"," ","C","o","r","r","i","d","o","r">>,
  <<"C","a","r","b","o","n"," ","C","r","e","d","i","t">>,
  <<"C","a","r","b","o","n"," ","M","a","r","k","e","t">>,
  <<"N","e","t"," ","Z","e","r","o">>,
  <<"E","n","e","r","g","y"," ","T","r","a","n","s","i","t","i","o","n">>,
  <<"E","l","e","c","t","r","i","c"," ","V","e","h","i","c","l","e">>,
  <<"E","V"," ","P","o","l","i","c","y">>,
  <<"F","A","M","E"," ","S","c","h","e","m","e">>,
  <<"N","a","t","i","o","n","a","l"," ","H","i","g","h","w","a","y","s"," ","A","u","t","h","o","r","i","t","y">>,
  <<"N","H","A","I">>,
  <<"T","o","l","l"," ","R","o","a","d">>,
  <<"B","O","T">>,
  <<"H","A","M">>,
  <<"D","e","d","i","c","a","t","e","d"," ","F","r","e","i","g","h","t"," ","C","o","r","r","i","d","o","r">>,
  <<"D","F","C">>,
  <<"H","i","g","h"," ","S","p","e","e","d"," ","R","a","i","l">>,
  <<"B","u","l","l","e","t"," ","T","r","a","i","n">>,
  <<"M","e","t","r","o"," ","R","a","i","l">>,
  <<"R","R","T","S">>,
  <<"R","e","g","i","o","n","a","l"," ","R","a","p","i","d"," ","T","r","a","n","s","i","t">>,
  <<"A","i","r","p","o","r","t","s"," ","A","u","t","h","o","r","i","t","y"," ","o","f"," ","I","n","d","i","a">>,
  <<"A","A","I">>,
  <<"U","D","A","N">>,
  <<"P","o","r","t">>,
  <<"S","a","g","a","r","m","a","l","a">>,
  <<"I","n","l","a","n","d"," ","W","a","t","e","r","w","a","y">>,
  <<"T","e","l","e","c","o","m"," ","R","e","g","u","l","a","t","o","r","y"," ","A","u","t","h","o","r","i","t","y">>,
  <<"T","R","A","I">>,
  <<"S","p","e","c","t","r","u","m"," ","A","u","c","t","i","o","n">>,
  <<"5","G">>,
  <<"6","G">>,
  <<"B","r","o","a","d","b","a","n","d">>,
  <<"B","h","a","r","a","t","N","e","t">>,
  <<"D","i","g","i","t","a","l"," ","V","i","l","l","a","g","e">>,
  <<"N","a","t","i","o","n","a","l"," ","B","r","o","a","d","b","a","n","d"," ","M","i","s","s","i","o","n">>,
  <<"O","T","T"," ","R","e","g","u","l","a","t","i","o","n">>,
  <<"S","e","m","i","c","o","n","d","u","c","t","o","r">>,
  <<"S","e","m","i","c","o","n"," ","I","n","d","i","a">>,
  <<"E","l","e","c","t","r","o","n","i","c","s"," ","M","a","n","u","f","a","c","t","u","r","i","n","g">>,
  <<"I","T"," ","H","a","r","d","w","a","r","e">>,
  <<"D","a","t","a"," ","C","e","n","t","r","e">>,
  <<"D","e","f","e","n","c","e"," ","A","c","q","u","i","s","i","t","i","o","n">>,
  <<"D","P","P">>,
  <<"D","A","P">>,
  <<"M","a","k","e"," ","i","n"," ","I","n","d","i","a"," ","D","e","f","e","n","c","e">>,
  <<"S","t","r","a","t","e","g","i","c"," ","P","a","r","t","n","e","r","s","h","i","p">>,
  <<"D","e","f","e","n","c","e"," ","O","f","f","s","e","t">>,
  <<"D","R","D","O">>,
  <<"O","r","d","n","a","n","c","e"," ","F","a","c","t","o","r","y">>,
  <<"D","e","f","e","n","c","e"," ","C","o","r","r","i","d","o","r">>,
  <<"D","e","f","e","n","c","e"," ","E","x","p","o","r","t">>,
  <<"M","i","n","i","m","u","m"," ","S","u","p","p","o","r","t"," ","P","r","i","c","e">>,
  <<"M","S","P">>,
  <<"A","g","r","i","c","u","l","t","u","r","a","l"," ","P","r","o","d","u","c","e"," ","M","a","r","k","e","t","i","n","g">>,
  <<"A","P","M","C">>,
  <<"e","-","N","A","M">>,
  <<"N","a","t","i","o","n","a","l"," ","A","g","r","i","c","u","l","t","u","r","e"," ","M","a","r","k","e","t">>,
  <<"F","a","r","m","e","r"," ","P","r","o","d","u","c","e","r"," ","O","r","g","a","n","i","z","a","t","i","o","n">>,
  <<"F","P","O">>,
  <<"C","o","n","t","r","a","c","t"," ","F","a","r","m","i","n","g">>,
  <<"P","M","-","K","I","S","A","N">>,
  <<"K","i","s","a","n"," ","C","r","e","d","i","t"," ","C","a","r","d">>,
  <<"K","C","C">>,
  <<"C","r","o","p"," ","I","n","s","u","r","a","n","c","e">>,
  <<"P","M","F","B","Y">>,
  <<"N","a","t","i","o","n","a","l"," ","H","e","a","l","t","h"," ","M","i","s","s","i","o","n">>,
  <<"N","H","M">>,
  <<"N","R","H","M">>,
  <<"N","U","H","M">>,
  <<"P","r","a","d","h","a","n"," ","M","a","n","t","r","i"," ","J","a","n"," ","A","r","o","g","y","a"," ","Y","o","j","a","n","a">>,
  <<"P","M","J","A","Y">>,
  <<"H","e","a","l","t","h"," ","I","n","s","u","r","a","n","c","e">>,
  <<"M","e","d","i","c","a","l"," ","D","e","v","i","c","e">>,
  <<"P","h","a","r","m","a","c","e","u","t","i","c","a","l">>,
  <<"D","r","u","g"," ","P","r","i","c","e"," ","C","o","n","t","r","o","l">>,
  <<"N","P","P","A">>,
  <<"C","l","i","n","i","c","a","l"," ","T","r","i","a","l">>,
  <<"M","e","d","i","c","a","l"," ","E","d","u","c","a","t","i","o","n">>,
  <<"N","E","E","T">>,
  <<"N","M","C">>,
  <<"U","n","i","v","e","r","s","i","t","y"," ","G","r","a","n","t","s"," ","C","o","m","m","i","s","s","i","o","n">>,
  <<"U","G","C">>,
  <<"A","I","C","T","E">>,
  <<"N","A","A","C">>,
  <<"N","I","R","F">>,
  <<"C","e","n","t","r","a","l"," ","U","n","i","v","e","r","s","i","t","y">>,
  <<"I","I","T">>,
  <<"I","I","M">>,
  <<"N","I","T">>,
  <<"I","I","I","T">>,
  <<"S","k","i","l","l"," ","D","e","v","e","l","o","p","m","e","n","t">>,
  <<"N","S","D","C">>,
  <<"I","T","I">>,
  <<"A","p","p","r","e","n","t","i","c","e","s","h","i","p">>,
  <<"A","r","t","i","c","l","e"," ","3","7","0">>,
  <<"A","r","t","i","c","l","e"," ","3","5","6">>,
  <<"A","r","t","i","c","l","e"," ","3","5","A">>,
  <<"T","e","n","t","h"," ","S","c","h","e","d","u","l","e">>,
  <<"A","n","t","i","-","D","e","f","e","c","t","i","o","n">>,
  <<"G","o","v","e","r","n","o","r">>,
  <<"P","r","e","s","i","d","e","n","t"," ","R","u","l","e">>,
  <<"C","o","n","s","t","i","t","u","t","i","o","n","a","l"," ","A","m","e","n","d","m","e","n","t">>,
  <<"L","o","k"," ","S","a","b","h","a">>,
  <<"R","a","j","y","a"," ","S","a","b","h","a">>,
  <<"P","a","r","l","i","a","m","e","n","t"," ","S","e","s","s","i","o","n">>,
  <<"S","t","a","n","d","i","n","g"," ","C","o","m","m","i","t","t","e","e">>,
  <<"P","a","r","l","i","a","m","e","n","t","a","r","y"," ","C","o","m","m","i","t","t","e","e">>,
  <<"J","o","i","n","t"," ","C","o","m","m","i","t","t","e","e">>,
  <<"E","l","e","c","t","i","o","n"," ","C","o","m","m","i","s","s","i","o","n">>,
  <<"D","e","l","i","m","i","t","a","t","i","o","n">>,
  <<"E","V","M">>,
  <<"V","V","P","A","T">>,
  <<"U","n","i","o","n"," ","T","e","r","r","i","t","o","r","y">>,
  <<"U","T">>,
  <<"S","t","a","t","e"," ","L","e","g","i","s","l","a","t","u","r","e">>,
  <<"V","i","d","h","a","n"," ","S","a","b","h","a">>,
  <<"S","t","a","t","e"," ","B","u","d","g","e","t">>,
  <<"F","i","n","a","n","c","e"," ","C","o","m","m","i","s","s","i","o","n">>,
  <<"G","S","T"," ","C","o","m","p","e","n","s","a","t","i","o","n">>,
  <<"C","e","n","t","r","a","l","l","y"," ","S","p","o","n","s","o","r","e","d"," ","S","c","h","e","m","e">>,
  <<"C","S","S">>,
  <<"C","e","n","t","r","a","l"," ","S","e","c","t","o","r"," ","S","c","h","e","m","e">>
>>

\* src/policy-keywords.js:133 ACRONYMS, <<key, expansion>> in table order
ACRONYMS == <<
  <<<<"R","B","I">>, <<"R","e","s","e","r","v","e"," ","B","a","n","k"," ","o","f"," ","I","n","d","i","a">>>>,
  <<<<"S","E","B","I">>, <<"S","e","c","u","r","i","t","i","e","s"," ","a","n","d"," ","E","x","c","h","a","n","g","e"," ","B","o","a","r","d"," ","o","f"," ","I","n","d","i","a">>>>,
  <<<<"I","R","D","A","I">>, <<"I","n","s","u","r","a","n","c","e"," ","R","e","g","u","l","a","t","o","r","y"," ","a","n","d"," ","D","e","v","e","l","o","p","m","e","n","t"," ","A","u","t","h","o","r","i","t","y"," ","o","f"," ","I","n","d","i","a">>>>,
  <<<<"P","F","R","D","A">>, <<"P","e","n","s","i","o","n"," ","F","u","n","d"," ","R","e","g","u","l","a","t","o","r","y"," ","a","n","d"," ","D","e","v","e","l","o","p","m","e","n","t"," ","A","u","t","h","o","r","i","t","y">>>>,
  <<<<"T","R","A","I">>, <<"T","e","l","e","c","o","m"," ","R","e","g","u","l","a","t","o","r","y"," ","A","u","t","h","o","r","i","t","y"," ","o","f"," ","I","n","d","i","a">>>>,
  <<<<"C","C","I">>, <<"C","o","m","p","e","t","i","t","i","o","n"," ","C","o","m","m","i","s","s","i","o","n"," ","o","f"," ","I","n","d","i","a">>>>,
  <<<<"N","C","L","T">>, <<"N","a","t","i","o","n","a","l"," ","C","o","m","p","a","n","y"," ","L","a","w"," ","T","r","i","b","u","n","a","l">>>>,
  <<<<"N","C","L","A","T">>, <<"N","a","t","i","o","n","a","l"," ","C","o","m","p","a","n","y"," ","L","a","w"," ","A","p","p","e","l","l","a","t","e"," ","T","r","i","b","u","n","a","l">>>>,
  <<<<"N","G","T">>, <<"N","a","t","i","o","n","a","l"," ","G","r","e","e","n"," ","T","r","i","b","u","n","a","l">>>>,
  <<<<"C","E","R","C">>, <<"C","e","n","t","r","a","l"," ","E","l","e","c","t","r","i","c","i","t","y"," ","R","e","g","u","l","a","t","o","r","y"," ","C","o","m","m","i","s","s","i","o","n">>>>,
  <<<<"F","S","S","A","I">>, <<"F","o","o","d"," ","S","a","f","e","t","y"," ","a","n","d"," ","S","t","a","n","d","a","r","d","s"," ","A","u","t","h","o","r","i","t","y"," ","o","f"," ","I","n","d","i","a">>>>,
  <<<<"B","I","S">>, <<"B","u","r","e","a","u"," ","o","f"," ","I","n","d","i","a","n"," ","S","t","a","n","d","a","r","d","s">>>>,
  <<<<"N","P","P","A">>, <<"N","a","t","i","o","n","a","l"," ","P","h","a","r","m","a","c","e","u","t","i","c","a","l"," ","P","r","i","c","i","n","g"," ","A","u","t","h","o","r","i","t","y">>>>,
  <<<<"N","I","T","I">>, <<"N","I","T","I"," ","A","a","y","o","g">>>>,
  <<<<"P","M","O">>, <<"P","r","i","m","e"," ","M","i","n","i","s","t","e","r","'","s"," ","O","f","f","i","c","e">>>>,
  <<<<"M","o","F">>, <<"M","i","n","i","s","t","r","y"," ","o","f"," ","F","i","n","a","n","c","e">>>>,
  <<<<"M","e","i","t","Y">>, <<"M","i","n","i","s","t","r","y"," ","o","f"," ","E","l","e","c","t","r","o","n","i","c","s"," ","a","n","d"," ","I","T">>>>,
  <<<<"D","P","I","I","T">>, <<"D","e","p","a","r","t","m","e","n","t"," ","f","o","r"," ","P","r","o","m","o","t","i","o","n"," ","o","f"," ","I","n","d","u","s","t","r","y"," ","a","n","d"," ","I","n","t","e","r","n","a","l"," ","T","r","a","d","e">>>>,
  <<<<"D","G","F","T">>, <<"D","i","r","e","c","t","o","r"," ","G","e","n","e","r","a","l"," ","o","f"," ","F","o","r","e","i","g","n"," ","T","r","a","d","e">>>>,
  <<<<"C","B","D","T">>, <<"C","e","n","t","r","a","l"," ","B","o","a","r","d"," ","o","f"," ","D","i","r","e","c","t"," ","T","a","x","e","s">>>>,
  <<<<"C","B","I","C">>, <<"C","e","n","t","r","a","l"," ","B","o","a","r","d"," ","o","f"," ","I","n","d","i","r","e","c","t"," ","T","a","x","e","s"," ","a","n","d"," ","C","u","s","t","o","m","s">>>>,
  <<<<"C","A","G">>, <<"C","o","m","p","t","r","o","l","l","e","r"," ","a","n","d"," ","A","u","d","i","t","o","r"," ","G","e","n","e","r","a","l">>>>,
  <<<<"P","L","I">>, <<"P","r","o","d","u","c","t","i","o","n"," ","L","i","n","k","e","d"," ","I","n","c","e","n","t","i","v","e">>>>,
  <<<<"P","M","A","Y">>, <<"P","r","a","d","h","a","n"," ","M","a","n","t","r","i"," ","A","w","a","s"," ","Y","o","j","a","n","a">>>>,
  <<<<"P","M","J","A","Y">>, <<"P","r","a","d","h","a","n"," ","M","a","n","t","r","i"," ","J","a","n"," ","A","r","o","g","y","a"," ","Y","o","j","a","n","a">>>>,
  <<<<"P","M","K","S","Y">>, <<"P","r","a","d","h","a","n"," ","M","a","n","t","r","i"," ","K","r","i","s","h","i"," ","S","i","n","c","h","a","y","e","e"," ","Y","o","j","a","n","a">>>>,
  <<<<"P","M","F","B","Y">>, <<"P","r","a","d","h","a","n"," ","M","a","n","t","r","i"," ","F","a","s","a","l"," ","B","i","m","a"," ","Y","o","j","a","n","a">>>>,
  <<<<"M","G","N","R","E","G","A">>, <<"M","a","h","a","t","m","a"," ","G","a","n","d","h","i"," ","N","a","t","i","o","n","a","l"," ","R","u","r","a","l"," ","E","m","p","l","o","y","m","e","n","t"," ","G","u","a","r","a","n","t","e","e"," ","A","c","t">>>>,
  <<<<"U","D","A","N">>, <<"U","d","e"," ","D","e","s","h"," ","k","a"," ","A","a","m"," ","N","a","g","r","i","k">>>>,
  <<<<"F","A","M","E">>, <<"F","a","s","t","e","r"," ","A","d","o","p","t","i","o","n"," ","a","n","d"," ","M","a","n","u","f","a","c","t","u","r","i","n","g"," ","o","f"," ","E","l","e","c","t","r","i","c"," ","V","e","h","i","c","l","e","s">>>>,
  <<<<"N","P","A">>, <<"N","o","n","-","P","e","r","f","o","r","m","i","n","g"," ","A","s","s","e","t">>>>,
  <<<<"A","R","C">>, <<"A","s","s","e","t"," ","R","e","c","o","n","s","t","r","u","c","t","i","o","n"," ","C","o","m","p","a","n","y">>>>,
  <<<<"N","B","F","C">>, <<"N","o","n","-","B","a","n","k","i","n","g"," ","F","i","n","a","n","c","i","a","l"," ","C","o","m","p","a","n","y">>>>,
  <<<<"H","F","C">>, <<"H","o","u","s","i","n","g"," ","F","i","n","a","n","c","e"," ","C","o","m","p","a","n","y">>>>,
  <<<<"F","D","I">>, <<"F","o","r","e","i","g","n"," ","D","i","r","e","c","t"," ","I","n","v","e","s","t","m","e","n","t">>>>,
  <<<<"F","P","I">>, <<"F","o","r","e","i","g","n"," ","P","o","r","t","f","o","l","i","o"," ","I","n","v","e","s","t","m","e","n","t">>>>,
  <<<<"F","I","I">>, <<"F","o","r","e","i","g","n"," ","I","n","s","t","i","t","u","t","i","o","n","a","l"," ","I","n","v","e","s","t","o","r">>>>,
  <<<<"P","E">>, <<"P","r","i","v","a","t","e"," ","E","q","u","i","t","y">>>>,
  <<<<"V","C">>, <<"V","e","n","t","u","r","e"," ","C","a","p","i","t","a","l">>>>,
  <<<<"I","P","O">>, <<"I","n","i","t","i","a","l"," ","P","u","b","l","i","c"," ","O","f","f","e","r","i","n","g">>>>,
  <<<<"Q","I","P">>, <<"Q","u","a","l","i","f","i","e","d"," ","I","n","s","t","i","t","u","t","i","o","n","a","l"," ","P","l","a","c","e","m","e","n","t">>>>,
  <<<<"A","I","F">>, <<"A","l","t","e","r","n","a","t","i","v","e"," ","I","n","v","e","s","t","m","e","n","t"," ","F","u","n","d">>>>,
  <<<<"R","E","I","T">>, <<"R","e","a","l"," ","E","s","t","a","t","e"," ","I","n","v","e","s","t","m","e","n","t"," ","T","r","u","s","t">>>>,
  <<<<"I","n","v","I","T">>, <<"I","n","f","r","a","s","t","r","u","c","t","u","r","e"," ","I","n","v","e","s","t","m","e","n","t"," ","T","r","u","s","t">>>>,
  <<<<"G","S","T">>, <<"G","o","o","d","s"," ","a","n","d"," ","S","e","r","v","i","c","e","s"," ","T","a","x">>>>,
  <<<<"I","G","S","T">>, <<"I","n","t","e","g","r","a","t","e","d"," ","G","S","T">>>>,
  <<<<"C","G","S","T">>, <<"C","e","n","t","r","a","l"," ","G","S","T">>>>,
  <<<<"S","G","S","T">>, <<"S","t","a","t","e"," ","G","S","T">>>>,
  <<<<"T","D","S">>, <<"T","a","x"," ","D","e","d","u","c","t","e","d"," ","a","t"," ","S","o","u","r","c","e">>>>,
  <<<<"T","C","S">>, <<"T","a","x"," ","C","o","l","l","e","c","t","e","d"," ","a","t"," ","S","o","u","r","c","e">>>>,
  <<<<"M","A","T">>, <<"M","i","n","i","m","u","m"," ","A","l","t","e","r","n","a","t","e"," ","T","a","x">>>>,
  <<<<"U","P","I">>, <<"U","n","i","f","i","e","d"," ","P","a","y","m","e","n","t","s"," ","I","n","t","e","r","f","a","c","e">>>>,
  <<<<"N","P","C","I">>, <<"N","a","t","i","o","n","a","l"," ","P","a","y","m","e","n","t","s"," ","C","o","r","p","o","r","a","t","i","o","n"," ","o","f"," ","I","n","d","i","a">>>>,
  <<<<"O","N","D","C">>, <<"O","p","e","n"," ","N","e","t","w","o","r","k"," ","f","o","r"," ","D","i","g","i","t","a","l"," ","C","o","m","m","e","r","c","e">>>>,
  <<<<"C","B","D","C">>, <<"C","e","n","t","r","a","l"," ","B","a","n","k"," ","D","i","g","i","t","a","l"," ","C","u","r","r","e","n","c","y">>>>,
  <<<<"A","B","D","M">>, <<"A","y","u","s","h","m","a","n"," ","B","h","a","r","a","t"," ","D","i","g","i","t","a","l"," ","M","i","s","s","i","o","n">>>>,
  <<<<"D","P","D","P">>, <<"D","i","g","i","t","a","l"," ","P","e","r","s","o","n","a","l"," ","D","a","t","a"," ","P","r","o","t","e","c","t","i","o","n">>>>,
  <<<<"N","H","A","I">>, <<"N","a","t","i","o","n","a","l"," ","H","i","g","h","w","a","y","s"," ","A","u","t","h","o","r","i","t","y"," ","o","f"," ","I","n","d","i","a">>>>,
  <<<<"A","A","I">>, <<"A","i","r","p","o","r","t","s"," ","A","u","t","h","o","r","i","t","y"," ","o","f"," ","I","n","d","i","a">>>>,
  <<<<"C","O","N","C","O","R">>, <<"C","o","n","t","a","i","n","e","r"," ","C","o","r","p","o","r","a","t","i","o","n"," ","o","f"," ","I","n","d","i","a">>>>,
  <<<<"D","F","C">>, <<"D","e","d","i","c","a","t","e","d"," ","F","r","e","i","g","h","t"," ","C","o","r","r","i","d","o","r">>>>,
  <<<<"R","R","T","S">>, <<"R","e","g","i","o","n","a","l"," ","R","a","p","i","d"," ","T","r","a","n","s","i","t"," ","S","y","s","t","e","m">>>>,
  <<<<"B","O","T">>, <<"B","u","i","l","d","-","O","p","e","r","a","t","e","-","T","r","a","n","s","f","e","r">>>>,
  <<<<"H","A","M">>, <<"H","y","b","r","i","d"," ","A","n","n","u","i","t","y"," ","M","o","d","e","l">>>>,
  <<<<"P","P","P">>, <<"P","u","b","l","i","c","-","P","r","i","v","a","t","e"," ","P","a","r","t","n","e","r","s","h","i","p">>>>,
  <<<<"E","P","C">>, <<"E","n","g","i","n","e","e","r","i","n","g"," ","P","r","o","c","u","r","e","m","e","n","t"," ","C","o","n","s","t","r","u","c","t","i","o","n">>>>,
  <<<<"N","T","P","C">>, <<"N","a","t","i","o","n","a","l"," ","T","h","e","r","m","a","l"," ","P","o","w","e","r"," ","C","o","r","p","o","r","a","t","i","o","n">>>>,
  <<<<"N","H","P","C">>, <<"N","a","t","i","o","n","a","l"," ","H","y","d","r","o","e","l","e","c","t","r","i","c"," ","P","o","w","e","r"," ","C","o","r","p","o","r","a","t","i","o","n">>>>,
  <<<<"O","N","G","C">>, <<"O","i","l"," ","a","n","d"," ","N","a","t","u","r","a","l"," ","G","a","s"," ","C","o","r","p","o","r","a","t","i","o","n">>>>,
  <<<<"G","A","I","L">>, <<"G","a","s"," ","A","u","t","h","o","r","i","t","y"," ","o","f"," ","I","n","d","i","a"," ","L","i","m","i","t","e","d">>>>,
  <<<<"I","O","C","L">>, <<"I","n","d","i","a","n"," ","O","i","l"," ","C","o","r","p","o","r","a","t","i","o","n"," ","L","i","m","i","t","e","d">>>>,
  <<<<"B","P","C","L">>, <<"B","h","a","r","a","t"," ","P","e","t","r","o","l","e","u","m"," ","C","o","r","p","o","r","a","t","i","o","n"," ","L","i","m","i","t","e","d">>>>,
  <<<<"H","P","C","L">>, <<"H","i","n","d","u","s","t","a","n"," ","P","e","t","r","o","l","e","u","m"," ","C","o","r","p","o","r","a","t","i","o","n"," ","L","i","m","i","t","e","d">>>>,
  <<<<"S","E","Z">>, <<"S","p","e","c","i","a","l"," ","E","c","o","n","o","m","i","c"," ","Z","o","n","e">>>>,
  <<<<"E","O","U">>, <<"E","x","p","o","r","t"," ","O","r","i","e","n","t","e","d"," ","U","n","i","t">>>>,
  <<<<"M","S","M","E">>, <<"M","i","c","r","o",","," ","S","m","a","l","l"," ","a","n","d"," ","M","e","d","i","u","m"," ","E","n","t","e","r","p","r","i","s","e","s">>>>,
  <<<<"P","S","U">>, <<"P","u","b","l","i","c"," ","S","e","c","t","o","r"," ","U","n","d","e","r","t","a","k","i","n","g">>>>,
  <<<<"P","S","E">>, <<"P","u","b","l","i","c"," ","S","e","c","t","o","r"," ","E","n","t","e","r","p","r","i","s","e">>>>,
  <<<<"C","P","S","E","s">>, <<"C","e","n","t","r","a","l"," ","P","u","b","l","i","c"," ","S","e","c","t","o","r"," ","E","n","t","e","r","p","r","i","s","e","s">>>>
>>

\* src/policy-keywords.js:235 STOPWORDS
STOPWORDS == {
  <<"a">>,
  <<"a","n">>,
  <<"t","h","e">>,
  <<"a","n","d">>,
  <<"o","r">>,
  <<"b","u","t">>,
  <<"i","n">>,
  <<"o","n">>,
  <<"a","t">>,
  <<"t","o">>,
  <<"f","o","r">>,
  <<"o","f">>,
  <<"w","i","t","h">>,
  <<"b","y">>,
  <<"f","r","o","m">>,
  <<"a","s">>,
  <<"i","s">>,
  <<"w","a","s">>,
  <<"a","r","e">>,
  <<"w","e","r","e">>,
  <<"b","e","e","n">>,
  <<"b","e">>,
  <<"h","a","v","e">>,
  <<"h","a","s">>,
  <<"h","a","d">>,
  <<"d","o">>,
  <<"d","o","e","s">>,
  <<"d","i","d">>,
  <<"w","i","l","l">>,
  <<"w","o","u","l","d">>,
  <<"c","o","u","l","d">>,
  <<"s","h","o","u","l","d">>,
  <<"m","a","y">>,
  <<"m","i","g","h","t">>,
  <<"m","u","s","t">>,
  <<"s","h","a","l","l">>,
  <<"c","a","n">>,
  <<"n","e","e","d">>,
  <<"d","a","r","e">>,
  <<"t","h","i","s">>,
  <<"t","h","a","t">>,
  <<"t","h","e","s","e">>,
  <<"t","h","o","s","e">>,
  <<"i","t">>,
  <<"i","t","s">>,
  <<"t","h","e","y">>,
  <<"t","h","e","m">>,
  <<"t","h","e","i","r">>,
  <<"h","e">>,
  <<"s","h","e">>,
  <<"h","i","m">>,
  <<"h","e","r">>,
  <<"h","i","s">>,
  <<"h","e","r","s">>,
  <<"w","e">>,
  <<"u","s">>,
  <<"o","u","r">>,
  <<"o","u","r","s">>,
  <<"y","o","u">>,
  <<"y","o","u","r">>,
  <<"y","o","u","r","s">>,
  <<"i">>,
  <<"m","e">>,
  <<"m","y">>,
  <<"m","i","n","e">>,
  <<"w","h","o">>,
  <<"w","h","o","m">>,
  <<"w","h","o","s","e">>,
  <<"w","h","i","c","h">>,
  <<"w","h","a","t">>,
  <<"w","h","e","r","e">>,
  <<"w","h","e","n">>,
  <<"w","h","y">>,
  <<"h","o","w">>,
  <<"a","l","l">>,
  <<"e","a","c","h">>,
  <<"e","v","e","r","y">>,
  <<"b","o","t","h">>,
  <<"f","e","w">>,
  <<"m","o","r","e">>,
  <<"m","o","s","t">>,
  <<"o","t","h","e","r">>,
  <<"s","o","m","e">>,
  <<"s","u","c","h">>,
  <<"n","o">>,
  <<"n","o","r">>,
  <<"n","o","t">>,
  <<"o","n","l","y">>,
  <<"o","w","n">>,
  <<"s","a","m","e">>,
  <<"s","o">>,
  <<"t","h","a","n">>,
  <<"t","o","o">>,
  <<"v","e","r","y">>,
  <<"j","u","s","t">>,
  <<"a","l","s","o">>,
  <<"n","o","w">>,
  <<"h","e","r","e">>,
  <<"t","h","e","r","e">>,
  <<"t","h","e","n">>,
  <<"o","n","c","e">>,
  <<"i","f">>,
  <<"u","n","l","e","s","s">>,
  <<"u","n","t","i","l">>,
  <<"w","h","i","l","e">>,
  <<"d","u","r","i","n","g">>,
  <<"b","e","f","o","r","e">>,
  <<"a","f","t","e","r">>,
  <<"a","b","o","v","e">>,
  <<"b","e","l","o","w">>,
  <<"b","e","t","w","e","e","n">>,
  <<"t","h","r","o","u","g","h">>,
  <<"a","b","o","u","t">>,
  <<"a","g","a","i","n","s","t">>,
  <<"i","n","t","o">>,
  <<"o","v","e","r">>,
  <<"u","n","d","e","r">>,
  <<"a","g","a","i","n">>,
  <<"f","u","r","t","h","e","r">>,
  <<"a","n","y">>,
  <<"u","p">>,
  <<"d","o","w","n">>,
  <<"o","u","t">>,
  <<"o","f","f">>,
  <<"c","r","o","r","e">>,
  <<"c","r","o","r","e","s">>,
  <<"l","a","k","h">>,
  <<"l","a","k","h","s">>,
  <<"r","u","p","e","e">>,
  <<"r","u","p","e","e","s">>,
  <<"r","s">>,
  <<"i","n","r">>,
  <<"s","a","i","d">>,
  <<"s","a","y","s">>,
  <<"t","o","l","d">>,
  <<"a","d","d","e","d">>,
  <<"s","t","a","t","e","d">>,
  <<"n","o","t","e","d">>,
  <<"m","e","n","t","i","o","n","e","d">>,
  <<"a","c","c","o","r","d","i","n","g">>,
  <<"p","e","r">>,
  <<"c","e","n","t">>,
  <<"p","e","r","c","e","n","t">>,
  <<"p","e","r","c","e","n","t","a","g","e">>,
  <<"y","e","a","r">>,
  <<"y","e","a","r","s">>,
  <<"m","o","n","t","h">>,
  <<"m","o","n","t","h","s">>,
  <<"w","e","e","k">>,
  <<"w","e","e","k","s">>,
  <<"d","a","y">>,
  <<"d","a","y","s">>,
  <<"t","i","m","e">>,
  <<"t","i","m","e","s">>,
  <<"t","o","d","a","y">>,
  <<"y","e","s","t","e","r","d","a","y">>,
  <<"t","o","m","o","r","r","o","w">>,
  <<"f","i","r","s","t">>,
  <<"s","e","c","o","n","d">>,
  <<"t","h","i","r","d">>,
  <<"l","a","s","t">>,
  <<"n","e","x","t">>,
  <<"n","e","w">>,
  <<"o","l","d">>,
  <<"o","n","e">>,
  <<"t","w","o">>,
  <<"t","h","r","e","e">>,
  <<"f","o","u","r">>,
  <<"f","i","v","e">>,
  <<"s","i","x">>,
  <<"s","e","v","e","n">>,
  <<"e","i","g","h","t">>,
  <<"n","i","n","e">>,
  <<"t","e","n">>,
  <<"h","u","n","d","r","e","d">>,
  <<"t","h","o","u","s","a","n","d">>,
  <<"m","i","l","l","i","o","n">>,
  <<"b","i","l","l","i","o","n">>,
  <<"t","r","i","l","l","i","o","n">>,
  <<"m","r">>,
  <<"m","r","s">>,
  <<"m","s">>,
  <<"d","r">>,
  <<"s","h","r","i">>,
  <<"s","m","t">>,
  <<"k","u","m","a","r">>,
  <<"s","h","a","r","m","a">>,
  <<"s","i","n","g","h">>,
  <<"m","i","n","i","s","t","e","r">>,
  <<"m","i","n","i","s","t","r","y">>,
  <<"g","o","v","e","r","n","m","e","n","t">>,
  <<"g","o","v","t">>,
  <<"o","f","f","i","c","i","a","l">>,
  <<"o","f","f","i","c","i","a","l","s">>,
  <<"i","n","d","i","a">>,
  <<"i","n","d","i","a","n">>,
  <<"c","o","u","n","t","r","y">>,
  <<"n","a","t","i","o","n">>,
  <<"n","a","t","i","o","n","a","l">>,
  <<"s","t","a","t","e">>,
  <<"s","t","a","t","e","s">>,
  <<"r","e","p","o","r","t">>,
  <<"r","e","p","o","r","t","s">>,
  <<"n","e","w","s">>,
  <<"u","p","d","a","t","e">>,
  <<"u","p","d","a","t","e","s">>,
  <<"l","a","t","e","s","t">>,
  <<"s","o","u","r","c","e">>,
  <<"s","o","u","r","c","e","s">>,
  <<"r","e","a","d">>,
  <<"c","l","i","c","k">>,
  <<"v","i","e","w">>,
  <<"h","i","g","h">>,
  <<"l","o","w">>,
  <<"b","i","g">>,
  <<"s","m","a","l","l">>,
  <<"l","a","r","g","e">>,
  <<"m","a","j","o","r">>,
  <<"m","i","n","o","r">>,
  <<"k","e","y">>,
  <<"t","o","p">>,
  <<"s","e","t">>,
  <<"g","e","t">>,
  <<"p","u","t">>,
  <<"t","a","k","e">>,
  <<"m","a","k","e">>,
  <<"g","i","v","e">>,
  <<"c","o","m","e">>,
  <<"g","o">>,
  <<"s","e","e">>,
  <<"l","o","o","k">>,
  <<"a","m","i","d">>,
  <<"a","m","o","n","g">>,
  <<"d","e","s","p","i","t","e">>,
  <<"t","o","w","a","r","d","s">>,
  <<"a","c","r","o","s","s">>,
  <<"a","l","o","n","g">>,
  <<"g","l","o","b","a","l">>,
  <<"w","o","r","l","d">>,
  <<"i","n","t","e","r","n","a","t","i","o","n","a","l">>,
  <<"d","o","m","e","s","t","i","c">>,
  <<"l","o","c","a","l">>,
  <<"r","e","g","i","o","n","a","l">>,
  <<"m","a","r","k","e","t">>,
  <<"m","a","r","k","e","t","s">>,
  <<"s","t","o","c","k">>,
  <<"s","t","o","c","k","s">>,
  <<"s","h","a","r","e">>,
  <<"s","h","a","r","e","s">>,
  <<"p","r","i","c","e">>,
  <<"p","r","i","c","e","s">>,
  <<"g","r","o","w","t","h">>,
  <<"r","i","s","e">>,
  <<"f","a","l","l">>,
  <<"d","r","o","p">>,
  <<"s","u","r","g","e">>,
  <<"j","u","m","p">>,
  <<"g","a","i","n">>,
  <<"l","o","s","s">>,
  <<"c","a","s","e">>,
  <<"c","a","s","e","s">>,
  <<"m","a","t","t","e","r">>,
  <<"i","s","s","u","e">>,
  <<"i","s","s","u","e","s">>,
  <<"p","r","o","b","l","e","m">>,
  <<"p","r","o","b","l","e","m","s">>,
  <<"c","o","u","r","t">>,
  <<"c","o","u","r","t","s">>,
  <<"j","u","d","g","e">>,
  <<"j","u","d","g","e","s">>,
  <<"h","e","a","r","i","n","g">>,
  <<"t","r","i","a","l">>,
  <<"v","e","r","d","i","c","t">>,
  <<"p","o","r","t">>,
  <<"p","o","r","t","s">>,
  <<"t","r","a","d","e">>,
  <<"t","r","a","d","e","s">>,
  <<"t","r","a","d","i","n","g">>,
  <<"t","r","a","d","e","r">>,
  <<"t","r","a","d","e","r","s">>,
  <<"t","e","c","h">>,
  <<"t","e","c","h","n","o","l","o","g","y">>,
  <<"d","i","g","i","t","a","l">>,
  <<"o","n","l","i","n","e">>,
  <<"i","n","t","e","r","n","e","t">>,
  <<"w","e","b">>,
  <<"c","y","b","e","r">>,
  <<"b","u","d","g","e","t">>,
  <<"b","u","d","g","e","t","s">>,
  <<"f","i","s","c","a","l">>,
  <<"f","i","n","a","n","c","i","a","l">>,
  <<"f","i","n","a","n","c","e">>,
  <<"e","c","o","n","o","m","i","c">>,
  <<"e","c","o","n","o","m","y">>,
  <<"c","o","m","p","a","n","y">>,
  <<"c","o","m","p","a","n","i","e","s">>,
  <<"f","i","r","m">>,
  <<"f","i","r","m","s">>,
  <<"b","u","s","i","n","e","s","s">>,
  <<"b","u","s","i","n","e","s","s","e","s">>,
  <<"s","e","c","t","o","r">>,
  <<"s","e","c","t","o","r","s">>,
  <<"i","n","d","u","s","t","r","y">>,
  <<"i","n","d","u","s","t","r","i","e","s">>,
  <<"s","e","g","m","e","n","t">>,
  <<"s","e","g","m","e","n","t","s">>,
  <<"p","l","a","n">>,
  <<"p","l","a","n","s">>,
  <<"s","c","h","e","m","e">>,
  <<"s","c","h","e","m","e","s">>,
  <<"p","r","o","j","e","c","t">>,
  <<"p","r","o","j","e","c","t","s">>,
  <<"p","r","o","g","r","a","m">>,
  <<"m","o","v","e">>,
  <<"m","o","v","e","s">>,
  <<"s","t","e","p">>,
  <<"s","t","e","p","s">>,
  <<"a","c","t","i","o","n">>,
  <<"a","c","t","i","o","n","s">>,
  <<"m","e","a","s","u","r","e">>,
  <<"m","e","a","s","u","r","e","s">>,
  <<"d","e","a","l">>,
  <<"d","e","a","l","s">>,
  <<"a","g","r","e","e","m","e","n","t">>,
  <<"a","g","r","e","e","m","e","n","t","s">>,
  <<"c","o","n","t","r","a","c","t">>,
  <<"c","o","n","t","r","a","c","t","s">>,
  <<"b","a","n","k">>,
  <<"b","a","n","k","s">>,
  <<"b","a","n","k","i","n","g">>,
  <<"l","o","a","n">>,
  <<"l","o","a","n","s">>,
  <<"c","r","e","d","i","t">>,
  <<"d","e","b","t">>,
  <<"i","n","v","e","s","t","m","e","n","t">>,
  <<"i","n","v","e","s","t","m","e","n","t","s">>,
  <<"i","n","v","e","s","t","o","r">>,
  <<"i","n","v","e","s","t","o","r","s">>,
  <<"f","u","n","d">>,
  <<"f","u","n","d","s">>,
  <<"p","o","l","i","c","y">>,
  <<"p","o","l","i","c","i","e","s">>,
  <<"r","u","l","e">>,
  <<"r","u","l","e","s">>,
  <<"r","e","g","u","l","a","t","i","o","n">>,
  <<"r","e","g","u","l","a","t","i","o","n","s">>,
  <<"l","a","w">>,
  <<"l","a","w","s">>,
  <<"l","e","g","a","l">>,
  <<"a","c","t">>,
  <<"a","c","t","s">>,
  <<"b","i","l","l">>,
  <<"b","i","l","l","s">>,
  <<"a","m","e","n","d","m","e","n","t">>,
  <<"t","r","u","m","p">>,
  <<"b","i","d","e","n">>,
  <<"m","o","d","i">>,
  <<"s","h","a","h">>,
  <<"r","a","h","u","l">>,
  <<"g","a","n","d","h","i">>,
  <<"k","e","j","r","i","w","a","l">>,
  <<"y","o","g","i">>,
  <<"b","j","p">>,
  <<"c","o","n","g","r","e","s","s">>,
  <<"a","a","p">>,
  <<"t","m","c">>,
  <<"n","c","p">>,
  <<"s","h","i","v">>,
  <<"s","e","n","a">>,
  <<"j","d","u">>,
  <<"r","j","d">>,
  <<"g","r","o","k">>,
  <<"o","p","e","n","a","i">>,
  <<"c","h","a","t","g","p","t">>,
  <<"g","e","m","i","n","i">>,
  <<"c","l","a","u","d","e">>,
  <<"b","a","r","d">>,
  <<"c","h","i","n","a">>,
  <<"c","h","i","n","e","s","e">>,
  <<"u","s","a">>,
  <<"a","m","e","r","i","c","a","n">>,
  <<"r","u","s","s","i","a">>,
  <<"r","u","s","s","i","a","n">>,
  <<"p","a","k","i","s","t","a","n">>,
  <<"j","a","n","u","a","r","y">>,
  <<"f","e","b","r","u","a","r","y">>,
  <<"m","a","r","c","h">>,
  <<"a","p","r","i","l">>,
  <<"j","u","n","e">>,
  <<"j","u","l","y">>,
  <<"a","u","g","u","s","t">>,
  <<"s","e","p","t","e","m","b","e","r">>,
  <<"o","c","t","o","b","e","r">>,
  <<"n","o","v","e","m","b","e","r">>,
  <<"d","e","c","e","m","b","e","r">>,
  <<"m","o","n","d","a","y">>,
  <<"t","u","e","s","d","a","y">>,
  <<"w","e","d","n","e","s","d","a","y">>,
  <<"t","h","u","r","s","d","a","y">>,
  <<"f","r","i","d","a","y">>,
  <<"s","a","t","u","r","d","a","y">>,
  <<"s","u","n","d","a","y">>,
  <<"u","t">>,
  <<"i","t","i">>,
  <<"n","i","t">>,
  <<"i","i","t">>,
  <<"i","i","s","c">>,
  <<"b","i","t","s">>,
  <<"a","r","c">>,
  <<"b","o","t">>,
  <<"c","e","o">>,
  <<"c","f","o">>,
  <<"c","t","o">>,
  <<"c","o","o">>,
  <<"v","p">>,
  <<"s","v","p">>,
  <<"e","v","p">>,
  <<"l","t","d">>,
  <<"p","v","t">>,
  <<"i","n","c">>,
  <<"l","l","p">>,
  <<"l","l","c">>,
  <<"c","o","r","p">>,
  <<"c","o">>,
  <<"d","e","l","h","i">>,
  <<"m","u","m","b","a","i">>,
  <<"b","a","n","g","a","l","o","r","e">>,
  <<"b","e","n","g","a","l","u","r","u">>,
  <<"c","h","e","n","n","a","i">>,
  <<"k","o","l","k","a","t","a">>,
  <<"h","y","d","e","r","a","b","a","d">>,
  <<"p","u","n","e">>,
  <<"a","h","m","e","d","a","b","a","d">>,
  <<"j","a","i","p","u","r">>,
  <<"l","u","c","k","n","o","w">>,
  <<"k","a","n","p","u","r">>,
  <<"n","a","g","p","u","r">>,
  <<"i","n","d","o","r","e">>,
  <<"t","h","a","n","e">>,
  <<"b","h","o","p","a","l">>,
  <<"v","i","s","a","k","h","a","p","a","t","n","a","m">>,
  <<"p","a","t","n","a">>,
  <<"v","a","d","o","d","a","r","a">>,
  <<"g","h","a","z","i","a","b","a","d">>,
  <<"l","u","d","h","i","a","n","a">>,
  <<"a","g","r","a">>,
  <<"n","a","s","h","i","k">>,
  <<"f","a","r","i","d","a","b","a","d">>,
  <<"m","e","e","r","u","t">>,
  <<"r","a","j","k","o","t">>,
  <<"v","a","r","a","n","a","s","i">>,
  <<"s","r","i","n","a","g","a","r">>,
  <<"a","u","r","a","n","g","a","b","a","d">>,
  <<"d","h","a","n","b","a","d">>,
  <<"a","m","r","i","t","s","a","r">>,
  <<"a","l","l","a","h","a","b","a","d">>,
  <<"p","r","a","y","a","g","r","a","j">>,
  <<"r","a","n","c","h","i">>,
  <<"h","o","w","r","a","h">>,
  <<"c","o","i","m","b","a","t","o","r","e">>,
  <<"j","a","b","a","l","p","u","r">>,
  <<"g","w","a","l","i","o","r">>,
  <<"v","i","j","a","y","a","w","a","d","a">>,
  <<"j","o","d","h","p","u","r">>,
  <<"m","a","d","u","r","a","i">>,
  <<"r","a","i","p","u","r">>,
  <<"k","o","c","h","i">>,
  <<"c","h","a","n","d","i","g","a","r","h">>,
  <<"g","u","r","g","a","o","n">>,
  <<"g","u","r","u","g","r","a","m">>,
  <<"n","o","i","d","a">>,
  <<"g","r","e","a","t","e","r">>
}

\* src/policy-keywords.js:317 SYNONYMS, <<alternate, canonical>> in table order
SYNONYMS == <<
  <<<<"r","e","s","e","r","v","e"," ","b","a","n","k">>, <<"R","B","I">>>>,
  <<<<"r","e","s","e","r","v","e"," ","b","a","n","k"," ","o","f"," ","i","n","d","i","a">>, <<"R","B","I">>>>,
  <<<<"s","e","b","i">>, <<"S","E","B","I">>>>,
  <<<<"s","e","c","u","r","i","t","i","e","s"," ","e","x","c","h","a","n","g","e">>, <<"S","E","B","I">>>>,
  <<<<"g","s","t">>, <<"G","S","T">>>>,
  <<<<"g","o","o","d","s"," ","s","e","r","v","i","c","e","s"," ","t","a","x">>, <<"G","S","T">>>>,
  <<<<"g","o","o","d","s"," ","a","n","d"," ","s","e","r","v","i","c","e","s"," ","t","a","x">>, <<"G","S","T">>>>,
  <<<<"u","p","i">>, <<"U","P","I">>>>,
  <<<<"u","n","i","f","i","e","d"," ","p","a","y","m","e","n","t","s">>, <<"U","P","I">>>>,
  <<<<"u","n","i","f","i","e","d"," ","p","a","y","m","e","n","t","s"," ","i","n","t","e","r","f","a","c","e">>, <<"U","P","I">>>>,
  <<<<"d","i","g","i","t","a","l"," ","r","u","p","e","e">>, <<"C","B","D","C">>>>,
  <<<<"c","e","n","t","r","a","l"," ","b","a","n","k"," ","d","i","g","i","t","a","l"," ","c","u","r","r","e","n","c","y">>, <<"C","B","D","C">>>>,
  <<<<"n","p","a">>, <<"N","P","A">>>>,
  <<<<"n","o","n"," ","p","e","r","f","o","r","m","i","n","g"," ","a","s","s","e","t">>, <<"N","P","A">>>>,
  <<<<"n","o","n","-","p","e","r","f","o","r","m","i","n","g"," ","a","s","s","e","t">>, <<"N","P","A">>>>,
  <<<<"b","a","d"," ","l","o","a","n">>, <<"N","P","A">>>>,
  <<<<"f","d","i">>, <<"F","D","I">>>>,
  <<<<"f","o","r","e","i","g","n"," ","d","i","r","e","c","t"," ","i","n","v","e","s","t","m","e","n","t">>, <<"F","D","I">>>>,
  <<<<"f","p","i">>, <<"F","P","I">>>>,
  <<<<"f","o","r","e","i","g","n"," ","p","o","r","t","f","o","l","i","o">>, <<"F","P","I">>>>,
  <<<<"s","t","a","r","t","u","p"," ","i","n","d","i","a">>, <<"S","t","a","r","t","u","p"," ","I","n","d","i","a">>>>,
  <<<<"s","t","a","r","t","-","u","p"," ","i","n","d","i","a">>, <<"S","t","a","r","t","u","p"," ","I","n","d","i","a">>>>,
  <<<<"m","a","k","e"," ","i","n"," ","i","n","d","i","a">>, <<"M","a","k","e"," ","i","n"," ","I","n","d","i","a">>>>,
  <<<<"d","i","g","i","t","a","l"," ","i","n","d","i","a">>, <<"D","i","g","i","t","a","l"," ","I","n","d","i","a">>>>,
  <<<<"p","l","i"," ","s","c","h","e","m","e">>, <<"P","L","I"," ","S","c","h","e","m","e">>>>,
  <<<<"p","r","o","d","u","c","t","i","o","n"," ","l","i","n","k","e","d"," ","i","n","c","e","n","t","i","v","e">>, <<"P","L","I"," ","S","c","h","e","m","e">>>>,
  <<<<"p","r","o","d","u","c","t","i","o","n","-","l","i","n","k","e","d"," ","i","n","c","e","n","t","i","v","e">>, <<"P","L","I"," ","S","c","h","e","m","e">>>>,
  <<<<"l","o","k"," ","s","a","b","h","a">>, <<"L","o","k"," ","S","a","b","h","a">>>>,
  <<<<"l","o","w","e","r"," ","h","o","u","s","e">>, <<"L","o","k"," ","S","a","b","h","a">>>>,
  <<<<"r","a","j","y","a"," ","s","a","b","h","a">>, <<"R","a","j","y","a"," ","S","a","b","h","a">>>>,
  <<<<"u","p","p","e","r"," ","h","o","u","s","e">>, <<"R","a","j","y","a"," ","S","a","b","h","a">>>>,
  <<<<"d","p","d","p">>, <<"D","P","D","P"," ","A","c","t">>>>,
  <<<<"d","p","d","p","a">>, <<"D","P","D","P"," ","A","c","t">>>>,
  <<<<"d","a","t","a"," ","p","r","o","t","e","c","t","i","o","n"," ","a","c","t">>, <<"D","P","D","P"," ","A","c","t">>>>,
  <<<<"d","i","g","i","t","a","l"," ","p","e","r","s","o","n","a","l"," ","d","a","t","a"," ","p","r","o","t","e","c","t","i","o","n">>, <<"D","P","D","P"," ","A","c","t">>>>,
  <<<<"e","l","e","c","t","r","i","c"," ","v","e","h","i","c","l","e">>, <<"E","V">>>>,
  <<<<"e","l","e","c","t","r","i","c"," ","v","e","h","i","c","l","e","s">>, <<"E","V">>>>,
  <<<<"e","v"," ","p","o","l","i","c","y">>, <<"E","V"," ","P","o","l","i","c","y">>>>,
  <<<<"m","s","m","e">>, <<"M","S","M","E">>>>,
  <<<<"m","i","c","r","o"," ","s","m","a","l","l"," ","m","e","d","i","u","m">>, <<"M","S","M","E">>>>,
  <<<<"s","m","a","l","l"," ","b","u","s","i","n","e","s","s">>, <<"M","S","M","E">>>>,
  <<<<"s","m","e">>, <<"M","S","M","E">>>>
>>

\* src/policy-keywords.js:378 KEYWORD_CATEGORIES, in declaration order
KEYWORD_CATEGORIES == <<
  [category |-> "Finance & Banking", terms |-> <<<<"R","B","I">>, <<"S","E","B","I">>, <<"b","a","n","k">>, <<"b","a","n","k","i","n","g">>, <<"l","o","a","n">>, <<"c","r","e","d","i","t">>, <<"N","P","A">>, <<"N","B","F","C">>, <<"m","o","n","e","t","a","r","y">>, <<"i","n","t","e","r","e","s","t"," ","r","a","t","e">>, <<"r","e","p","o">>, <<"i","n","f","l","a","t","i","o","n">>, <<"l","i","q","u","i","d","i","t","y">>, <<"d","e","p","o","s","i","t">>, <<"l","e","n","d","i","n","g">>, <<"f","i","n","t","e","c","h">>, <<"p","a","y","m","e","n","t">>, <<"U","P","I">>, <<"d","i","g","i","t","a","l"," ","p","a","y","m","e","n","t">>>>],
  [category |-> "Taxation", terms |-> <<<<"G","S","T">>, <<"t","a","x">>, <<"t","a","x","a","t","i","o","n">>, <<"i","n","c","o","m","e"," ","t","a","x">>, <<"d","i","r","e","c","t"," ","t","a","x">>, <<"i","n","d","i","r","e","c","t"," ","t","a","x">>, <<"T","D","S">>, <<"T","C","S">>, <<"I","T","R">>, <<"a","s","s","e","s","s","m","e","n","t">>, <<"C","B","D","T">>, <<"C","B","I","C">>, <<"c","u","s","t","o","m","s">>, <<"d","u","t","y">>>>],
  [category |-> "Trade & Commerce", terms |-> <<<<"e","x","p","o","r","t">>, <<"i","m","p","o","r","t">>, <<"t","r","a","d","e">>, <<"t","a","r","i","f","f">>, <<"F","T","A">>, <<"S","E","Z">>, <<"D","G","F","T">>, <<"f","o","r","e","i","g","n"," ","t","r","a","d","e">>, <<"c","o","m","m","e","r","c","e">>, <<"W","T","O">>, <<"d","u","m","p","i","n","g">>, <<"s","a","f","e","g","u","a","r","d">>>>],
  [category |-> "Digital & Technology", terms |-> <<<<"d","i","g","i","t","a","l">>, <<"t","e","c","h","n","o","l","o","g","y">>, <<"I","T">>, <<"s","o","f","t","w","a","r","e">>, <<"d","a","t","a">>, <<"c","y","b","e","r">>, <<"A","I">>, <<"s","t","a","r","t","u","p">>, <<"f","i","n","t","e","c","h">>, <<"e","-","c","o","m","m","e","r","c","e">>, <<"i","n","t","e","r","n","e","t">>, <<"t","e","l","e","c","o","m">>, <<"5","G">>, <<"s","e","m","i","c","o","n","d","u","c","t","o","r">>, <<"e","l","e","c","t","r","o","n","i","c","s">>, <<"d","a","t","a"," ","c","e","n","t","r","e">>, <<"c","l","o","u","d">>>>],
  [category |-> "Infrastructure", terms |-> <<<<"i","n","f","r","a","s","t","r","u","c","t","u","r","e">>, <<"h","i","g","h","w","a","y">>, <<"r","o","a","d">>, <<"r","a","i","l">>, <<"r","a","i","l","w","a","y">>, <<"a","i","r","p","o","r","t">>, <<"p","o","r","t">>, <<"m","e","t","r","o">>, <<"s","m","a","r","t"," ","c","i","t","y">>, <<"c","o","n","s","t","r","u","c","t","i","o","n">>, <<"P","P","P">>, <<"N","H","A","I">>>>],
  [category |-> "Energy & Environment", terms |-> <<<<"e","n","e","r","g","y">>, <<"p","o","w","e","r">>, <<"e","l","e","c","t","r","i","c","i","t","y">>, <<"r","e","n","e","w","a","b","l","e">>, <<"s","o","l","a","r">>, <<"w","i","n","d">>, <<"o","i","l">>, <<"g","a","s">>, <<"c","o","a","l">>, <<"g","r","e","e","n">>, <<"c","a","r","b","o","n">>, <<"c","l","i","m","a","t","e">>, <<"e","n","v","i","r","o","n","m","e","n","t">>, <<"p","o","l","l","u","t","i","o","n">>, <<"E","V">>, <<"e","l","e","c","t","r","i","c"," ","v","e","h","i","c","l","e">>, <<"h","y","d","r","o","g","e","n">>>>],
  [category |-> "Labour & Employment", terms |-> <<<<"l","a","b","o","u","r">>, <<"l","a","b","o","r">>, <<"e","m","p","l","o","y","m","e","n","t">>, <<"w","o","r","k","e","r">>, <<"w","a","g","e">>, <<"E","P","F","O">>, <<"E","S","I","C">>, <<"g","i","g">>, <<"c","o","n","t","r","a","c","t">>, <<"i","n","d","u","s","t","r","i","a","l">>, <<"f","a","c","t","o","r","y">>, <<"u","n","i","o","n">>, <<"s","t","r","i","k","e">>>>],
  [category |-> "Healthcare", terms |-> <<<<"h","e","a","l","t","h">>, <<"h","e","a","l","t","h","c","a","r","e">>, <<"h","o","s","p","i","t","a","l">>, <<"m","e","d","i","c","a","l">>, <<"p","h","a","r","m","a">>, <<"d","r","u","g">>, <<"P","M","J","A","Y">>, <<"a","y","u","s","h","m","a","n">>, <<"i","n","s","u","r","a","n","c","e">>, <<"F","S","S","A","I">>, <<"f","o","o","d"," ","s","a","f","e","t","y">>>>],
  [category |-> "Education", terms |-> <<<<"e","d","u","c","a","t","i","o","n">>, <<"u","n","i","v","e","r","s","i","t","y">>, <<"s","c","h","o","o","l">>, <<"c","o","l","l","e","g","e">>, <<"U","G","C">>, <<"A","I","C","T","E">>, <<"N","E","P">>, <<"s","k","i","l","l">>, <<"t","r","a","i","n","i","n","g">>, <<"N","E","E","T">>, <<"J","E","E">>, <<"I","I","T">>, <<"I","I","M">>>>],
  [category |-> "Agriculture", terms |-> <<<<"a","g","r","i","c","u","l","t","u","r","e">>, <<"f","a","r","m","e","r">>, <<"f","a","r","m","i","n","g">>, <<"c","r","o","p">>, <<"M","S","P">>, <<"A","P","M","C">>, <<"F","P","O">>, <<"i","r","r","i","g","a","t","i","o","n">>, <<"f","e","r","t","i","l","i","z","e","r">>, <<"p","e","s","t","i","c","i","d","e">>, <<"a","g","r","i">>, <<"r","u","r","a","l">>>>],
  [category |-> "Corporate & Securities", terms |-> <<<<"c","o","m","p","a","n","y">>, <<"c","o","r","p","o","r","a","t","e">>, <<"I","P","O">>, <<"s","t","o","c","k">>, <<"s","h","a","r","e">>, <<"e","q","u","i","t","y">>, <<"b","o","n","d">>, <<"m","e","r","g","e","r">>, <<"a","c","q","u","i","s","i","t","i","o","n">>, <<"F","D","I">>, <<"F","P","I">>, <<"i","n","v","e","s","t","m","e","n","t">>, <<"P","E">>, <<"V","C">>>>],
  [category |-> "Governance & Politics", terms |-> <<<<"p","a","r","l","i","a","m","e","n","t">>, <<"l","o","k"," ","s","a","b","h","a">>, <<"r","a","j","y","a"," ","s","a","b","h","a">>, <<"e","l","e","c","t","i","o","n">>, <<"g","o","v","e","r","n","o","r">>, <<"l","e","g","i","s","l","a","t","i","o","n">>, <<"b","i","l","l">>, <<"a","c","t">>, <<"o","r","d","i","n","a","n","c","e">>, <<"c","o","n","s","t","i","t","u","t","i","o","n","a","l">>, <<"C","A","G">>>>],
  [category |-> "Civil Liberties", terms |-> <<<<"f","u","n","d","a","m","e","n","t","a","l"," ","r","i","g","h","t","s">>, <<"a","r","t","i","c","l","e"," ","1","9">>, <<"a","r","t","i","c","l","e"," ","2","1">>, <<"a","r","t","i","c","l","e"," ","1","4">>, <<"f","r","e","e","d","o","m"," ","o","f"," ","s","p","e","e","c","h">>, <<"f","r","e","e","d","o","m"," ","o","f"," ","e","x","p","r","e","s","s","i","o","n">>, <<"f","r","e","e"," ","s","p","e","e","c","h">>, <<"r","i","g","h","t"," ","t","o"," ","p","r","o","t","e","s","t">>, <<"r","i","g","h","t"," ","t","o"," ","a","s","s","e","m","b","l","e">>, <<"p","r","o","t","e","s","t"," ","b","a","n">>, <<"s","e","c","t","i","o","n"," ","1","4","4">>, <<"i","n","t","e","r","n","e","t"," ","s","h","u","t","d","o","w","n">>, <<"s","e","d","i","t","i","o","n">>, <<"u","a","p","a">>, <<"p","r","e","v","e","n","t","i","v","e"," ","d","e","t","e","n","t","i","o","n">>, <<"h","a","b","e","a","s"," ","c","o","r","p","u","s">>, <<"p","e","r","s","o","n","a","l"," ","l","i","b","e","r","t","y">>, <<"c","u","s","t","o","d","i","a","l"," ","d","e","a","t","h">>, <<"c","u","s","t","o","d","i","a","l"," ","t","o","r","t","u","r","e">>, <<"n","h","r","c">>, <<"h","u","m","a","n"," ","r","i","g","h","t","s">>, <<"p","r","e","s","s"," ","f","r","e","e","d","o","m">>, <<"c","e","n","s","o","r","s","h","i","p">>, <<"r","e","l","i","g","i","o","u","s"," ","f","r","e","e","d","o","m">>, <<"m","i","n","o","r","i","t","y"," ","r","i","g","h","t","s">>, <<"d","i","s","s","e","n","t">>, <<"c","i","v","i","l"," ","s","o","c","i","e","t","y">>, <<"f","c","r","a">>>>]
>>

\* The alternatives of PERSON_NAME_PATTERNS[1]
SURNAMES == {
  <<"k","u","m","a","r">>,
  <<"s","h","a","r","m","a">>,
  <<"s","i","n","g","h">>,
  <<"g","u","p","t","a">>,
  <<"p","a","t","e","l">>,
  <<"r","e","d","d","y">>,
  <<"r","a","o">>,
  <<"i","y","e","r">>,
  <<"n","a","i","r">>,
  <<"m","e","n","o","n">>,
  <<"p","i","l","l","a","i">>,
  <<"v","e","r","m","a">>,
  <<"j","a","i","n">>,
  <<"a","g","a","r","w","a","l">>,
  <<"a","g","r","a","w","a","l">>,
  <<"j","o","s","h","i">>,
  <<"m","e","h","t","a">>,
  <<"s","h","a","h">>,
  <<"d","a","s">>,
  <<"r","o","y">>,
  <<"s","e","n">>,
  <<"b","o","s","e">>,
  <<"m","u","k","h","e","r","j","e","e">>,
  <<"c","h","a","t","t","e","r","j","e","e">>,
  <<"b","a","n","e","r","j","e","e">>
}

\* src/unnamed/part_008:17 KNOWN_PHRASES (a Set: iterated in insertion order)
KNOWN_PHRASES == <<
  <<"d","i","g","i","t","a","l"," ","i","n","d","i","a">>,
  <<"m","a","k","e"," ","i","n"," ","i","n","d","i","a">>,
  <<"s","t","a","r","t","u","p"," ","i","n","d","i","a">>,
  <<"s","k","i","l","l"," ","i","n","d","i","a">>,
  <<"a","t","m","a","n","i","r","b","h","a","r"," ","b","h","a","r","a","t">>,
  <<"s","w","a","c","h","h"," ","b","h","a","r","a","t">>,
  <<"s","m","a","r","t"," ","c","i","t","i","e","s">>,
  <<"p","r","a","d","h","a","n"," ","m","a","n","t","r","i">>,
  <<"j","a","n"," ","d","h","a","n">>,
  <<"u","j","j","w","a","l","a"," ","y","o","j","a","n","a">>,
  <<"a","y","u","s","h","m","a","n"," ","b","h","a","r","a","t">>,
  <<"p","m"," ","k","i","s","a","n">>,
  <<"o","n","e"," ","n","a","t","i","o","n"," ","o","n","e"," ","r","a","t","i","o","n">>,
  <<"o","n","e"," ","n","a","t","i","o","n"," ","o","n","e"," ","t","a","x">>,
  <<"o","n","e"," ","n","a","t","i","o","n"," ","o","n","e"," ","e","l","e","c","t","i","o","n">>,
  <<"a","t","a","l"," ","p","e","n","s","i","o","n"," ","y","o","j","a","n","a">>,
  <<"s","u","k","a","n","y","a"," ","s","a","m","r","i","d","d","h","i">>,
  <<"s","t","a","n","d"," ","u","p"," ","i","n","d","i","a">>,
  <<"b","h","a","r","a","t"," ","n","e","t">>,
  <<"g","r","a","m"," ","s","w","a","r","a","j">>,
  <<"u","j","a","l","a"," ","s","c","h","e","m","e">>,
  <<"n","a","t","i","o","n","a","l"," ","h","i","g","h","w","a","y","s">>,
  <<"f","i","s","c","a","l"," ","d","e","f","i","c","i","t">>,
  <<"c","u","r","r","e","n","t"," ","a","c","c","o","u","n","t"," ","d","e","f","i","c","i","t">>,
  <<"t","r","a","d","e"," ","d","e","f","i","c","i","t">>,
  <<"f","o","r","e","i","g","n"," ","e","x","c","h","a","n","g","e">>,
  <<"m","o","n","e","t","a","r","y"," ","p","o","l","i","c","y">>,
  <<"f","i","s","c","a","l"," ","p","o","l","i","c","y">>,
  <<"r","e","p","o"," ","r","a","t","e">>,
  <<"r","e","v","e","r","s","e"," ","r","e","p","o">>,
  <<"c","a","s","h"," ","r","e","s","e","r","v","e"," ","r","a","t","i","o">>,
  <<"s","t","a","t","u","t","o","r","y"," ","l","i","q","u","i","d","i","t","y"," ","r","a","t","i","o">>,
  <<"g","r","o","s","s"," ","d","o","m","e","s","t","i","c"," ","p","r","o","d","u","c","t">>,
  <<"g","r","o","s","s"," ","v","a","l","u","e"," ","a","d","d","e","d">>,
  <<"w","h","o","l","e","s","a","l","e"," ","p","r","i","c","e"," ","i","n","d","e","x">>,
  <<"c","o","n","s","u","m","e","r"," ","p","r","i","c","e"," ","i","n","d","e","x">>,
  <<"e","a","s","e"," ","o","f"," ","d","o","i","n","g"," ","b","u","s","i","n","e","s","s">>,
  <<"f","o","r","e","i","g","n"," ","d","i","r","e","c","t"," ","i","n","v","e","s","t","m","e","n","t">>,
  <<"f","o","r","e","i","g","n"," ","i","n","s","t","i","t","u","t","i","o","n","a","l"," ","i","n","v","e","s","t","o","r">>,
  <<"p","u","b","l","i","c"," ","s","e","c","t","o","r"," ","u","n","d","e","r","t","a","k","i","n","g">>,
  <<"d","i","s","i","n","v","e","s","t","m","e","n","t">>,
  <<"p","r","i","v","a","t","i","z","a","t","i","o","n">>,
  <<"p","u","b","l","i","c"," ","p","r","i","v","a","t","e"," ","p","a","r","t","n","e","r","s","h","i","p">>,
  <<"c","a","p","i","t","a","l"," ","g","a","i","n","s">>,
  <<"g","o","o","d","s"," ","a","n","d"," ","s","e","r","v","i","c","e","s"," ","t","a","x">>,
  <<"i","n","c","o","m","e"," ","t","a","x">>,
  <<"c","o","r","p","o","r","a","t","e"," ","t","a","x">>,
  <<"c","u","s","t","o","m","s"," ","d","u","t","y">>,
  <<"e","x","c","i","s","e"," ","d","u","t","y">>,
  <<"t","a","x"," ","e","v","a","s","i","o","n">>,
  <<"b","l","a","c","k"," ","m","o","n","e","y">>,
  <<"o","f","f","s","h","o","r","e"," ","a","c","c","o","u","n","t","s">>,
  <<"t","a","x"," ","h","a","v","e","n">>,
  <<"r","e","s","e","r","v","e"," ","b","a","n","k">>,
  <<"f","i","n","a","n","c","e"," ","m","i","n","i","s","t","r","y">>,
  <<"c","o","m","m","e","r","c","e"," ","m","i","n","i","s","t","r","y">>,
  <<"e","x","t","e","r","n","a","l"," ","a","f","f","a","i","r","s"," ","m","i","n","i","s","t","r","y">>,
  <<"h","o","m","e"," ","m","i","n","i","s","t","r","y">>,
  <<"d","e","f","e","n","c","e"," ","m","i","n","i","s","t","r","y">>,
  <<"p","r","i","m","e"," ","m","i","n","i","s","t","e","r"," ","o","f","f","i","c","e">>,
  <<"c","a","b","i","n","e","t"," ","s","e","c","r","e","t","a","r","y">>,
  <<"a","t","t","o","r","n","e","y"," ","g","e","n","e","r","a","l">>,
  <<"s","o","l","i","c","i","t","o","r"," ","g","e","n","e","r","a","l">>,
  <<"c","o","m","p","t","r","o","l","l","e","r"," ","a","u","d","i","t","o","r"," ","g","e","n","e","r","a","l">>,
  <<"e","l","e","c","t","i","o","n"," ","c","o","m","m","i","s","s","i","o","n">>,
  <<"c","e","n","t","r","a","l"," ","i","n","f","o","r","m","a","t","i","o","n"," ","c","o","m","m","i","s","s","i","o","n">>,
  <<"n","a","t","i","o","n","a","l"," ","g","r","e","e","n"," ","t","r","i","b","u","n","a","l">>,
  <<"n","a","t","i","o","n","a","l"," ","c","o","m","p","a","n","y"," ","l","a","w"," ","t","r","i","b","u","n","a","l">>,
  <<"i","n","s","o","l","v","e","n","c","y"," ","b","a","n","k","r","u","p","t","c","y">>,
  <<"c","o","m","p","e","t","i","t","i","o","n"," ","c","o","m","m","i","s","s","i","o","n">>,
  <<"c","o","n","s","u","m","e","r"," ","d","i","s","p","u","t","e","s">>,
  <<"d","i","g","i","t","a","l"," ","p","u","b","l","i","c"," ","i","n","f","r","a","s","t","r","u","c","t","u","r","e">>,
  <<"u","n","i","f","i","e","d"," ","p","a","y","m","e","n","t","s"," ","i","n","t","e","r","f","a","c","e">>,
  <<"a","a","d","h","a","a","r"," ","e","n","a","b","l","e","d">>,
  <<"o","p","e","n"," ","n","e","t","w","o","r","k">>,
  <<"d","i","g","i","t","a","l"," ","c","o","m","m","e","r","c","e">>,
  <<"o","p","e","n"," ","b","a","n","k","i","n","g">>,
  <<"a","c","c","o","u","n","t"," ","a","g","g","r","e","g","a","t","o","r">>,
  <<"c","e","n","t","r","a","l"," ","b","a","n","k"," ","d","i","g","i","t","a","l"," ","c","u","r","r","e","n","c","y">>,
  <<"b","l","o","c","k","c","h","a","i","n">>,
  <<"a","r","t","i","f","i","c","i","a","l"," ","i","n","t","e","l","l","i","g","e","n","c","e">>,
  <<"m","a","c","h","i","n","e"," ","l","e","a","r","n","i","n","g">>,
  <<"d","a","t","a"," ","p","r","o","t","e","c","t","i","o","n">>,
  <<"p","e","r","s","o","n","a","l"," ","d","a","t","a">>,
  <<"d","a","t","a"," ","p","r","i","v","a","c","y">>,
  <<"d","a","t","a"," ","l","o","c","a","l","i","z","a","t","i","o","n">>,
  <<"c","r","o","s","s"," ","b","o","r","d","e","r">>,
  <<"d","a","t","a"," ","f","i","d","u","c","i","a","r","y">>,
  <<"c","o","n","s","e","n","t"," ","m","a","n","a","g","e","r">>,
  <<"d","a","t","a"," ","p","r","i","n","c","i","p","a","l">>,
  <<"s","o","c","i","a","l"," ","m","e","d","i","a">>,
  <<"i","n","t","e","r","m","e","d","i","a","r","y"," ","g","u","i","d","e","l","i","n","e","s">>,
  <<"s","a","f","e"," ","h","a","r","b","o","u","r">>,
  <<"s","i","g","n","i","f","i","c","a","n","t"," ","s","o","c","i","a","l"," ","m","e","d","i","a"," ","i","n","t","e","r","m","e","d","i","a","r","y">>,
  <<"c","o","n","t","e","n","t"," ","m","o","d","e","r","a","t","i","o","n">>,
  <<"l","a","b","o","u","r"," ","c","o","d","e">>,
  <<"m","i","n","i","m","u","m"," ","w","a","g","e">>,
  <<"p","r","o","v","i","d","e","n","t"," ","f","u","n","d">>,
  <<"g","r","a","t","u","i","t","y">>,
  <<"i","n","d","u","s","t","r","i","a","l"," ","d","i","s","p","u","t","e","s">>,
  <<"t","r","a","d","e"," ","u","n","i","o","n">>,
  <<"c","o","n","t","r","a","c","t"," ","l","a","b","o","u","r">>,
  <<"g","i","g"," ","w","o","r","k","e","r">>,
  <<"p","l","a","t","f","o","r","m"," ","w","o","r","k","e","r">>,
  <<"s","o","c","i","a","l"," ","s","e","c","u","r","i","t","y">>,
  <<"e","s","i">>,
  <<"e","p","f","o">>,
  <<"p","e","n","s","i","o","n"," ","f","u","n","d">>,
  <<"u","n","o","r","g","a","n","i","z","e","d"," ","s","e","c","t","o","r">>,
  <<"n","a","t","i","o","n","a","l"," ","i","n","f","r","a","s","t","r","u","c","t","u","r","e"," ","p","i","p","e","l","i","n","e">>,
  <<"g","a","t","i"," ","s","h","a","k","t","i">>,
  <<"b","h","a","r","a","t","m","a","l","a">>,
  <<"s","a","g","a","r","m","a","l","a">>,
  <<"d","e","d","i","c","a","t","e","d"," ","f","r","e","i","g","h","t"," ","c","o","r","r","i","d","o","r">>,
  <<"h","i","g","h"," ","s","p","e","e","d"," ","r","a","i","l">>,
  <<"b","u","l","l","e","t"," ","t","r","a","i","n">>,
  <<"m","e","t","r","o"," ","r","a","i","l">>,
  <<"s","m","a","r","t"," ","c","i","t","y">>,
  <<"h","o","u","s","i","n","g"," ","f","o","r"," ","a","l","l">>,
  <<"a","f","f","o","r","d","a","b","l","e"," ","h","o","u","s","i","n","g">>,
  <<"r","e","a","l"," ","e","s","t","a","t","e">>,
  <<"r","e","r","a">>,
  <<"i","n","f","r","a","s","t","r","u","c","t","u","r","e"," ","i","n","v","e","s","t","m","e","n","t"," ","t","r","u","s","t">>,
  <<"r","e","n","e","w","a","b","l","e"," ","e","n","e","r","g","y">>,
  <<"s","o","l","a","r"," ","p","o","w","e","r">>,
  <<"w","i","n","d"," ","p","o","w","e","r">>,
  <<"g","r","e","e","n"," ","h","y","d","r","o","g","e","n">>,
  <<"e","l","e","c","t","r","i","c"," ","v","e","h","i","c","l","e">>,
  <<"c","a","r","b","o","n"," ","e","m","i","s","s","i","o","n">>,
  <<"n","e","t"," ","z","e","r","o">>,
  <<"c","l","i","m","a","t","e"," ","c","h","a","n","g","e">>,
  <<"p","a","r","i","s"," ","a","g","r","e","e","m","e","n","t">>,
  <<"c","o","p"," ","s","u","m","m","i","t">>,
  <<"n","a","t","i","o","n","a","l"," ","a","c","t","i","o","n"," ","p","l","a","n">>,
  <<"c","l","e","a","n"," ","e","n","e","r","g","y">>,
  <<"f","o","s","s","i","l"," ","f","u","e","l">>,
  <<"c","o","a","l"," ","m","i","n","i","n","g">>,
  <<"g","a","s"," ","p","i","p","e","l","i","n","e">>,
  <<"p","u","b","l","i","c"," ","h","e","a","l","t","h">>,
  <<"m","e","d","i","c","a","l"," ","d","e","v","i","c","e">>,
  <<"d","r","u","g"," ","p","r","i","c","i","n","g">>,
  <<"e","s","s","e","n","t","i","a","l"," ","m","e","d","i","c","i","n","e","s">>,
  <<"c","l","i","n","i","c","a","l"," ","t","r","i","a","l">>,
  <<"p","h","a","r","m","a","c","e","u","t","i","c","a","l">>,
  <<"g","e","n","e","r","i","c"," ","d","r","u","g">>,
  <<"v","a","c","c","i","n","e">>,
  <<"h","e","a","l","t","h"," ","i","n","s","u","r","a","n","c","e">>,
  <<"m","e","d","i","c","a","l"," ","c","o","l","l","e","g","e">>,
  <<"n","u","r","s","i","n","g">>,
  <<"t","e","l","e","m","e","d","i","c","i","n","e">>,
  <<"n","a","t","i","o","n","a","l"," ","e","d","u","c","a","t","i","o","n"," ","p","o","l","i","c","y">>,
  <<"h","i","g","h","e","r"," ","e","d","u","c","a","t","i","o","n">>,
  <<"s","k","i","l","l"," ","d","e","v","e","l","o","p","m","e","n","t">>,
  <<"v","o","c","a","t","i","o","n","a","l"," ","t","r","a","i","n","i","n","g">>,
  <<"d","i","g","i","t","a","l"," ","l","i","t","e","r","a","c","y">>,
  <<"o","n","l","i","n","e"," ","e","d","u","c","a","t","i","o","n">>,
  <<"s","c","h","o","o","l"," ","e","d","u","c","a","t","i","o","n">>,
  <<"t","e","a","c","h","e","r"," ","t","r","a","i","n","i","n","g">>,
  <<"n","a","t","i","o","n","a","l"," ","t","e","s","t","i","n","g"," ","a","g","e","n","c","y">>,
  <<"c","o","n","s","t","i","t","u","t","i","o","n","a","l"," ","a","m","e","n","d","m","e","n","t">>,
  <<"o","r","d","i","n","a","n","c","e">>,
  <<"p","a","r","l","i","a","m","e","n","t"," ","s","e","s","s","i","o","n">>,
  <<"l","o","k"," ","s","a","b","h","a">>,
  <<"r","a","j","y","a"," ","s","a","b","h","a">>,
  <<"s","u","p","r","e","m","e"," ","c","o","u","r","t">>,
  <<"h","i","g","h"," ","c","o","u","r","t">>,
  <<"d","i","s","t","r","i","c","t"," ","c","o","u","r","t">>,
  <<"j","u","d","i","c","i","a","l"," ","r","e","v","i","e","w">>,
  <<"p","u","b","l","i","c"," ","i","n","t","e","r","e","s","t"," ","l","i","t","i","g","a","t","i","o","n">>,
  <<"f","u","n","d","a","m","e","n","t","a","l"," ","r","i","g","h","t","s">>,
  <<"d","i","r","e","c","t","i","v","e"," ","p","r","i","n","c","i","p","l","e","s">>,
  <<"a","r","t","i","c","l","e"," ","3","7","0">>,
  <<"c","i","t","i","z","e","n","s","h","i","p"," ","a","m","e","n","d","m","e","n","t">>,
  <<"u","n","i","f","o","r","m"," ","c","i","v","i","l"," ","c","o","d","e">>,
  <<"a","n","t","i"," ","d","e","f","e","c","t","i","o","n">>,
  <<"g","o","v","e","r","n","o","r"," ","r","o","l","e">>,
  <<"p","r","e","s","i","d","e","n","t"," ","r","u","l","e">>,
  <<"e","m","e","r","g","e","n","c","y"," ","p","r","o","v","i","s","i","o","n","s">>,
  <<"e","x","p","o","r","t"," ","p","r","o","m","o","t","i","o","n">>,
  <<"i","m","p","o","r","t"," ","s","u","b","s","t","i","t","u","t","i","o","n">>,
  <<"t","r","a","d","e"," ","a","g","r","e","e","m","e","n","t">>,
  <<"f","r","e","e"," ","t","r","a","d","e">>,
  <<"w","o","r","l","d"," ","t","r","a","d","e"," ","o","r","g","a","n","i","z","a","t","i","o","n">>,
  <<"m","o","s","t"," ","f","a","v","o","u","r","e","d"," ","n","a","t","i","o","n">>,
  <<"a","n","t","i"," ","d","u","m","p","i","n","g">>,
  <<"c","o","u","n","t","e","r","v","a","i","l","i","n","g"," ","d","u","t","y">>,
  <<"s","a","f","e","g","u","a","r","d"," ","d","u","t","y">>,
  <<"s","p","e","c","i","a","l"," ","e","c","o","n","o","m","i","c"," ","z","o","n","e">>,
  <<"e","x","p","o","r","t"," ","p","r","o","c","e","s","s","i","n","g"," ","z","o","n","e">>,
  <<"n","o","n"," ","p","e","r","f","o","r","m","i","n","g"," ","a","s","s","e","t">>,
  <<"a","s","s","e","t"," ","r","e","c","o","n","s","t","r","u","c","t","i","o","n">>,
  <<"b","a","d"," ","b","a","n","k">>,
  <<"b","a","n","k"," ","m","e","r","g","e","r">>,
  <<"p","r","i","o","r","i","t","y"," ","s","e","c","t","o","r"," ","l","e","n","d","i","n","g">>,
  <<"m","i","c","r","o"," ","f","i","n","a","n","c","e">>,
  <<"s","m","a","l","l"," ","f","i","n","a","n","c","e"," ","b","a","n","k">>,
  <<"p","a","y","m","e","n","t"," ","b","a","n","k">>,
  <<"c","o","o","p","e","r","a","t","i","v","e"," ","b","a","n","k">>,
  <<"r","e","g","i","o","n","a","l"," ","r","u","r","a","l"," ","b","a","n","k">>,
  <<"d","e","v","e","l","o","p","m","e","n","t"," ","f","i","n","a","n","c","e">>,
  <<"v","e","n","t","u","r","e"," ","c","a","p","i","t","a","l">>,
  <<"a","n","g","e","l"," ","i","n","v","e","s","t","o","r">>,
  <<"p","r","i","v","a","t","e"," ","e","q","u","i","t","y">>,
  <<"i","n","i","t","i","a","l"," ","p","u","b","l","i","c"," ","o","f","f","e","r","i","n","g">>,
  <<"f","o","l","l","o","w"," ","o","n"," ","o","f","f","e","r">>,
  <<"r","i","g","h","t","s"," ","i","s","s","u","e">>,
  <<"n","a","t","i","o","n","a","l"," ","s","e","c","u","r","i","t","y">>,
  <<"b","o","r","d","e","r"," ","s","e","c","u","r","i","t","y">>,
  <<"c","y","b","e","r"," ","s","e","c","u","r","i","t","y">>,
  <<"d","e","f","e","n","c","e"," ","p","r","o","c","u","r","e","m","e","n","t">>,
  <<"m","a","k","e"," ","i","n"," ","i","n","d","i","a"," ","d","e","f","e","n","c","e">>,
  <<"s","t","r","a","t","e","g","i","c"," ","p","a","r","t","n","e","r","s","h","i","p">>,
  <<"n","u","c","l","e","a","r"," ","p","r","o","g","r","a","m">>,
  <<"m","i","s","s","i","l","e"," ","d","e","f","e","n","s","e">>,
  <<"a","r","m","e","d"," ","f","o","r","c","e","s">>,
  <<"p","a","r","a","m","i","l","i","t","a","r","y">>,
  <<"c","o","u","n","t","e","r"," ","t","e","r","r","o","r","i","s","m">>,
  <<"i","n","t","e","r","n","a","l"," ","s","e","c","u","r","i","t","y">>,
  <<"m","i","n","i","m","u","m"," ","s","u","p","p","o","r","t"," ","p","r","i","c","e">>,
  <<"a","g","r","i","c","u","l","t","u","r","a","l"," ","p","r","o","d","u","c","e"," ","m","a","r","k","e","t","i","n","g">>,
  <<"f","a","r","m","e","r"," ","p","r","o","d","u","c","e","r"," ","o","r","g","a","n","i","z","a","t","i","o","n">>,
  <<"c","r","o","p"," ","i","n","s","u","r","a","n","c","e">>,
  <<"k","i","s","a","n"," ","c","r","e","d","i","t">>,
  <<"a","g","r","i","c","u","l","t","u","r","a","l"," ","i","n","f","r","a","s","t","r","u","c","t","u","r","e">>,
  <<"c","o","l","d"," ","s","t","o","r","a","g","e">>,
  <<"f","o","o","d"," ","p","r","o","c","e","s","s","i","n","g">>,
  <<"o","r","g","a","n","i","c"," ","f","a","r","m","i","n","g">>,
  <<"n","a","t","u","r","a","l"," ","f","a","r","m","i","n","g">>,
  <<"f","o","o","d"," ","s","e","c","u","r","i","t","y">>
>>

\* src/unnamed/part_008:123 ACRONYMS, <<key, expansion>>
ACRONYMS_V62 == <<
  <<<<"r","b","i">>, <<"R","e","s","e","r","v","e"," ","B","a","n","k"," ","o","f"," ","I","n","d","i","a">>>>,
  <<<<"s","e","b","i">>, <<"S","e","c","u","r","i","t","i","e","s"," ","a","n","d"," ","E","x","c","h","a","n","g","e"," ","B","o","a","r","d"," ","o","f"," ","I","n","d","i","a">>>>,
  <<<<"i","r","d","a","i">>, <<"I","n","s","u","r","a","n","c","e"," ","R","e","g","u","l","a","t","o","r","y"," ","a","n","d"," ","D","e","v","e","l","o","p","m","e","n","t"," ","A","u","t","h","o","r","i","t","y"," ","o","f"," ","I","n","d","i","a">>>>,
  <<<<"t","r","a","i">>, <<"T","e","l","e","c","o","m"," ","R","e","g","u","l","a","t","o","r","y"," ","A","u","t","h","o","r","i","t","y"," ","o","f"," ","I","n","d","i","a">>>>,
  <<<<"p","f","r","d","a">>, <<"P","e","n","s","i","o","n"," ","F","u","n","d"," ","R","e","g","u","l","a","t","o","r","y"," ","a","n","d"," ","D","e","v","e","l","o","p","m","e","n","t"," ","A","u","t","h","o","r","i","t","y">>>>,
  <<<<"i","b","b","i">>, <<"I","n","s","o","l","v","e","n","c","y"," ","a","n","d"," ","B","a","n","k","r","u","p","t","c","y"," ","B","o","a","r","d"," ","o","f"," ","I","n","d","i","a">>>>,
  <<<<"c","c","i">>, <<"C","o","m","p","e","t","i","t","i","o","n"," ","C","o","m","m","i","s","s","i","o","n"," ","o","f"," ","I","n","d","i","a">>>>,
  <<<<"f","s","s","a","i">>, <<"F","o","o","d"," ","S","a","f","e","t","y"," ","a","n","d"," ","S","t","a","n","d","a","r","d","s"," ","A","u","t","h","o","r","i","t","y"," ","o","f"," ","I","n","d","i","a">>>>,
  <<<<"c","b","i">>, <<"C","e","n","t","r","a","l"," ","B","u","r","e","a","u"," ","o","f"," ","I","n","v","e","s","t","i","g","a","t","i","o","n">>>>,
  <<<<"e","d">>, <<"E","n","f","o","r","c","e","m","e","n","t"," ","D","i","r","e","c","t","o","r","a","t","e">>>>,
  <<<<"n","g","t">>, <<"N","a","t","i","o","n","a","l"," ","G","r","e","e","n"," ","T","r","i","b","u","n","a","l">>>>,
  <<<<"n","c","l","t">>, <<"N","a","t","i","o","n","a","l"," ","C","o","m","p","a","n","y"," ","L","a","w"," ","T","r","i","b","u","n","a","l">>>>,
  <<<<"n","c","l","a","t">>, <<"N","a","t","i","o","n","a","l"," ","C","o","m","p","a","n","y"," ","L","a","w"," ","A","p","p","e","l","l","a","t","e"," ","T","r","i","b","u","n","a","l">>>>,
  <<<<"c","e","r","c">>, <<"C","e","n","t","r","a","l"," ","E","l","e","c","t","r","i","c","i","t","y"," ","R","e","g","u","l","a","t","o","r","y"," ","C","o","m","m","i","s","s","i","o","n">>>>,
  <<<<"a","e","r","c">>, <<"A","t","o","m","i","c"," ","E","n","e","r","g","y"," ","R","e","g","u","l","a","t","o","r","y"," ","C","o","m","m","i","s","s","i","o","n">>>>,
  <<<<"m","o","f">>, <<"M","i","n","i","s","t","r","y"," ","o","f"," ","F","i","n","a","n","c","e">>>>,
  <<<<"m","h","a">>, <<"M","i","n","i","s","t","r","y"," ","o","f"," ","H","o","m","e"," ","A","f","f","a","i","r","s">>>>,
  <<<<"m","e","a">>, <<"M","i","n","i","s","t","r","y"," ","o","f"," ","E","x","t","e","r","n","a","l"," ","A","f","f","a","i","r","s">>>>,
  <<<<"m","o","d">>, <<"M","i","n","i","s","t","r","y"," ","o","f"," ","D","e","f","e","n","c","e">>>>,
  <<<<"m","o","e","f">>, <<"M","i","n","i","s","t","r","y"," ","o","f"," ","E","n","v","i","r","o","n","m","e","n","t"," ","a","n","d"," ","F","o","r","e","s","t","s">>>>,
  <<<<"m","e","i","t","y">>, <<"M","i","n","i","s","t","r","y"," ","o","f"," ","E","l","e","c","t","r","o","n","i","c","s"," ","a","n","d"," ","I","n","f","o","r","m","a","t","i","o","n"," ","T","e","c","h","n","o","l","o","g","y">>>>,
  <<<<"d","p","i","i","t">>, <<"D","e","p","a","r","t","m","e","n","t"," ","f","o","r"," ","P","r","o","m","o","t","i","o","n"," ","o","f"," ","I","n","d","u","s","t","r","y"," ","a","n","d"," ","I","n","t","e","r","n","a","l"," ","T","r","a","d","e">>>>,
  <<<<"d","g","f","t">>, <<"D","i","r","e","c","t","o","r","a","t","e"," ","G","e","n","e","r","a","l"," ","o","f"," ","F","o","r","e","i","g","n"," ","T","r","a","d","e">>>>,
  <<<<"c","b","d","t">>, <<"C","e","n","t","r","a","l"," ","B","o","a","r","d"," ","o","f"," ","D","i","r","e","c","t"," ","T","a","x","e","s">>>>,
  <<<<"c","b","i","c">>, <<"C","e","n","t","r","a","l"," ","B","o","a","r","d"," ","o","f"," ","I","n","d","i","r","e","c","t"," ","T","a","x","e","s"," ","a","n","d"," ","C","u","s","t","o","m","s">>>>,
  <<<<"n","i","t","i">>, <<"N","a","t","i","o","n","a","l"," ","I","n","s","t","i","t","u","t","i","o","n"," ","f","o","r"," ","T","r","a","n","s","f","o","r","m","i","n","g"," ","I","n","d","i","a">>>>,
  <<<<"c","a","g">>, <<"C","o","m","p","t","r","o","l","l","e","r"," ","a","n","d"," ","A","u","d","i","t","o","r"," ","G","e","n","e","r","a","l">>>>,
  <<<<"u","p","s","c">>, <<"U","n","i","o","n"," ","P","u","b","l","i","c"," ","S","e","r","v","i","c","e"," ","C","o","m","m","i","s","s","i","o","n">>>>,
  <<<<"g","s","t">>, <<"G","o","o","d","s"," ","a","n","d"," ","S","e","r","v","i","c","e","s"," ","T","a","x">>>>,
  <<<<"g","s","t","n">>, <<"G","o","o","d","s"," ","a","n","d"," ","S","e","r","v","i","c","e","s"," ","T","a","x"," ","N","e","t","w","o","r","k">>>>,
  <<<<"n","p","a">>, <<"N","o","n","-","P","e","r","f","o","r","m","i","n","g"," ","A","s","s","e","t">>>>,
  <<<<"a","r","c">>, <<"A","s","s","e","t"," ","R","e","c","o","n","s","t","r","u","c","t","i","o","n"," ","C","o","m","p","a","n","y">>>>,
  <<<<"n","b","f","c">>, <<"N","o","n","-","B","a","n","k","i","n","g"," ","F","i","n","a","n","c","i","a","l"," ","C","o","m","p","a","n","y">>>>,
  <<<<"h","f","c">>, <<"H","o","u","s","i","n","g"," ","F","i","n","a","n","c","e"," ","C","o","m","p","a","n","y">>>>,
  <<<<"m","f">>, <<"M","u","t","u","a","l"," ","F","u","n","d">>>>,
  <<<<"a","i","f">>, <<"A","l","t","e","r","n","a","t","i","v","e"," ","I","n","v","e","s","t","m","e","n","t"," ","F","u","n","d">>>>,
  <<<<"f","p","i">>, <<"F","o","r","e","i","g","n"," ","P","o","r","t","f","o","l","i","o"," ","I","n","v","e","s","t","m","e","n","t">>>>,
  <<<<"f","d","i">>, <<"F","o","r","e","i","g","n"," ","D","i","r","e","c","t"," ","I","n","v","e","s","t","m","e","n","t">>>>,
  <<<<"e","c","b">>, <<"E","x","t","e","r","n","a","l"," ","C","o","m","m","e","r","c","i","a","l"," ","B","o","r","r","o","w","i","n","g","s">>>>,
  <<<<"a","d","r">>, <<"A","m","e","r","i","c","a","n"," ","D","e","p","o","s","i","t","a","r","y"," ","R","e","c","e","i","p","t">>>>,
  <<<<"g","d","r">>, <<"G","l","o","b","a","l"," ","D","e","p","o","s","i","t","a","r","y"," ","R","e","c","e","i","p","t">>>>,
  <<<<"i","p","o">>, <<"I","n","i","t","i","a","l"," ","P","u","b","l","i","c"," ","O","f","f","e","r","i","n","g">>>>,
  <<<<"f","p","o">>, <<"F","o","l","l","o","w","-","o","n"," ","P","u","b","l","i","c"," ","O","f","f","e","r">>>>,
  <<<<"o","f","s">>, <<"O","f","f","e","r"," ","F","o","r"," ","S","a","l","e">>>>,
  <<<<"r","e","i","t">>, <<"R","e","a","l"," ","E","s","t","a","t","e"," ","I","n","v","e","s","t","m","e","n","t"," ","T","r","u","s","t">>>>,
  <<<<"i","n","v","i","t">>, <<"I","n","f","r","a","s","t","r","u","c","t","u","r","e"," ","I","n","v","e","s","t","m","e","n","t"," ","T","r","u","s","t">>>>,
  <<<<"e","t","f">>, <<"E","x","c","h","a","n","g","e"," ","T","r","a","d","e","d"," ","F","u","n","d">>>>,
  <<<<"s","i","p">>, <<"S","y","s","t","e","m","a","t","i","c"," ","I","n","v","e","s","t","m","e","n","t"," ","P","l","a","n">>>>,
  <<<<"u","p","i">>, <<"U","n","i","f","i","e","d"," ","P","a","y","m","e","n","t","s"," ","I","n","t","e","r","f","a","c","e">>>>,
  <<<<"i","m","p","s">>, <<"I","m","m","e","d","i","a","t","e"," ","P","a","y","m","e","n","t"," ","S","e","r","v","i","c","e">>>>,
  <<<<"n","e","f","t">>, <<"N","a","t","i","o","n","a","l"," ","E","l","e","c","t","r","o","n","i","c"," ","F","u","n","d","s"," ","T","r","a","n","s","f","e","r">>>>,
  <<<<"r","t","g","s">>, <<"R","e","a","l"," ","T","i","m","e"," ","G","r","o","s","s"," ","S","e","t","t","l","e","m","e","n","t">>>>,
  <<<<"n","p","c","i">>, <<"N","a","t","i","o","n","a","l"," ","P","a","y","m","e","n","t","s"," ","C","o","r","p","o","r","a","t","i","o","n"," ","o","f"," ","I","n","d","i","a">>>>,
  <<<<"b","b","p","s">>, <<"B","h","a","r","a","t"," ","B","i","l","l"," ","P","a","y","m","e","n","t"," ","S","y","s","t","e","m">>>>,
  <<<<"b","h","i","m">>, <<"B","h","a","r","a","t"," ","I","n","t","e","r","f","a","c","e"," ","f","o","r"," ","M","o","n","e","y">>>>,
  <<<<"c","b","d","c">>, <<"C","e","n","t","r","a","l"," ","B","a","n","k"," ","D","i","g","i","t","a","l"," ","C","u","r","r","e","n","c","y">>>>,
  <<<<"d","p","i">>, <<"D","i","g","i","t","a","l"," ","P","u","b","l","i","c"," ","I","n","f","r","a","s","t","r","u","c","t","u","r","e">>>>,
  <<<<"o","n","d","c">>, <<"O","p","e","n"," ","N","e","t","w","o","r","k"," ","f","o","r"," ","D","i","g","i","t","a","l"," ","C","o","m","m","e","r","c","e">>>>,
  <<<<"o","c","e","n">>, <<"O","p","e","n"," ","C","r","e","d","i","t"," ","E","n","a","b","l","e","m","e","n","t"," ","N","e","t","w","o","r","k">>>>,
  <<<<"d","e","p","a">>, <<"D","a","t","a"," ","E","m","p","o","w","e","r","m","e","n","t"," ","a","n","d"," ","P","r","o","t","e","c","t","i","o","n"," ","A","r","c","h","i","t","e","c","t","u","r","e">>>>,
  <<<<"d","p","d","p">>, <<"D","i","g","i","t","a","l"," ","P","e","r","s","o","n","a","l"," ","D","a","t","a"," ","P","r","o","t","e","c","t","i","o","n">>>>,
  <<<<"p","d","p","b">>, <<"P","e","r","s","o","n","a","l"," ","D","a","t","a"," ","P","r","o","t","e","c","t","i","o","n"," ","B","i","l","l">>>>,
  <<<<"i","t"," ","a","c","t">>, <<"I","n","f","o","r","m","a","t","i","o","n"," ","T","e","c","h","n","o","l","o","g","y"," ","A","c","t">>>>,
  <<<<"a","i">>, <<"A","r","t","i","f","i","c","i","a","l"," ","I","n","t","e","l","l","i","g","e","n","c","e">>>>,
  <<<<"m","l">>, <<"M","a","c","h","i","n","e"," ","L","e","a","r","n","i","n","g">>>>,
  <<<<"g","d","p">>, <<"G","r","o","s","s"," ","D","o","m","e","s","t","i","c"," ","P","r","o","d","u","c","t">>>>,
  <<<<"g","v","a">>, <<"G","r","o","s","s"," ","V","a","l","u","e"," ","A","d","d","e","d">>>>,
  <<<<"c","p","i">>, <<"C","o","n","s","u","m","e","r"," ","P","r","i","c","e"," ","I","n","d","e","x">>>>,
  <<<<"w","p","i">>, <<"W","h","o","l","e","s","a","l","e"," ","P","r","i","c","e"," ","I","n","d","e","x">>>>,
  <<<<"i","i","p">>, <<"I","n","d","e","x"," ","o","f"," ","I","n","d","u","s","t","r","i","a","l"," ","P","r","o","d","u","c","t","i","o","n">>>>,
  <<<<"p","m","i">>, <<"P","u","r","c","h","a","s","i","n","g"," ","M","a","n","a","g","e","r","s"," ","I","n","d","e","x">>>>,
  <<<<"c","a","d">>, <<"C","u","r","r","e","n","t"," ","A","c","c","o","u","n","t"," ","D","e","f","i","c","i","t">>>>,
  <<<<"b","o","p">>, <<"B","a","l","a","n","c","e"," ","o","f"," ","P","a","y","m","e","n","t","s">>>>,
  <<<<"f","o","r","e","x">>, <<"F","o","r","e","i","g","n"," ","E","x","c","h","a","n","g","e">>>>,
  <<<<"c","r","r">>, <<"C","a","s","h"," ","R","e","s","e","r","v","e"," ","R","a","t","i","o">>>>,
  <<<<"s","l","r">>, <<"S","t","a","t","u","t","o","r","y"," ","L","i","q","u","i","d","i","t","y"," ","R","a","t","i","o">>>>,
  <<<<"m","s","p">>, <<"M","i","n","i","m","u","m"," ","S","u","p","p","o","r","t"," ","P","r","i","c","e">>>>,
  <<<<"p","d","s">>, <<"P","u","b","l","i","c"," ","D","i","s","t","r","i","b","u","t","i","o","n"," ","S","y","s","t","e","m">>>>,
  <<<<"e","p","f","o">>, <<"E","m","p","l","o","y","e","e","s"," ","P","r","o","v","i","d","e","n","t"," ","F","u","n","d"," ","O","r","g","a","n","i","s","a","t","i","o","n">>>>,
  <<<<"e","s","i","c">>, <<"E","m","p","l","o","y","e","e","s"," ","S","t","a","t","e"," ","I","n","s","u","r","a","n","c","e"," ","C","o","r","p","o","r","a","t","i","o","n">>>>,
  <<<<"p","m","j","d","y">>, <<"P","r","a","d","h","a","n"," ","M","a","n","t","r","i"," ","J","a","n"," ","D","h","a","n"," ","Y","o","j","a","n","a">>>>,
  <<<<"p","m","j","j","b","y">>, <<"P","r","a","d","h","a","n"," ","M","a","n","t","r","i"," ","J","e","e","v","a","n"," ","J","y","o","t","i"," ","B","i","m","a"," ","Y","o","j","a","n","a">>>>,
  <<<<"p","m","s","b","y">>, <<"P","r","a","d","h","a","n"," ","M","a","n","t","r","i"," ","S","u","r","a","k","s","h","a"," ","B","i","m","a"," ","Y","o","j","a","n","a">>>>,
  <<<<"p","m","a","y">>, <<"P","r","a","d","h","a","n"," ","M","a","n","t","r","i"," ","A","w","a","s"," ","Y","o","j","a","n","a">>>>,
  <<<<"p","m","u","y">>, <<"P","r","a","d","h","a","n"," ","M","a","n","t","r","i"," ","U","j","j","w","a","l","a"," ","Y","o","j","a","n","a">>>>,
  <<<<"m","g","n","r","e","g","a">>, <<"M","a","h","a","t","m","a"," ","G","a","n","d","h","i"," ","N","a","t","i","o","n","a","l"," ","R","u","r","a","l"," ","E","m","p","l","o","y","m","e","n","t"," ","G","u","a","r","a","n","t","e","e"," ","A","c","t">>>>,
  <<<<"n","f","s","a">>, <<"N","a","t","i","o","n","a","l"," ","F","o","o","d"," ","S","e","c","u","r","i","t","y"," ","A","c","t">>>>,
  <<<<"a","b">>, <<"A","y","u","s","h","m","a","n"," ","B","h","a","r","a","t">>>>,
  <<<<"p","m","j","a","y">>, <<"P","r","a","d","h","a","n"," ","M","a","n","t","r","i"," ","J","a","n"," ","A","r","o","g","y","a"," ","Y","o","j","a","n","a">>>>,
  <<<<"n","h","a","i">>, <<"N","a","t","i","o","n","a","l"," ","H","i","g","h","w","a","y","s"," ","A","u","t","h","o","r","i","t","y"," ","o","f"," ","I","n","d","i","a">>>>,
  <<<<"r","i","l">>, <<"R","e","l","i","a","n","c","e"," ","I","n","d","u","s","t","r","i","e","s"," ","L","i","m","i","t","e","d">>>>,
  <<<<"n","t","p","c">>, <<"N","a","t","i","o","n","a","l"," ","T","h","e","r","m","a","l"," ","P","o","w","e","r"," ","C","o","r","p","o","r","a","t","i","o","n">>>>,
  <<<<"o","n","g","c">>, <<"O","i","l"," ","a","n","d"," ","N","a","t","u","r","a","l"," ","G","a","s"," ","C","o","r","p","o","r","a","t","i","o","n">>>>,
  <<<<"i","o","c","l">>, <<"I","n","d","i","a","n"," ","O","i","l"," ","C","o","r","p","o","r","a","t","i","o","n"," ","L","i","m","i","t","e","d">>>>,
  <<<<"b","p","c","l">>, <<"B","h","a","r","a","t"," ","P","e","t","r","o","l","e","u","m"," ","C","o","r","p","o","r","a","t","i","o","n"," ","L","i","m","i","t","e","d">>>>,
  <<<<"h","p","c","l">>, <<"H","i","n","d","u","s","t","a","n"," ","P","e","t","r","o","l","e","u","m"," ","C","o","r","p","o","r","a","t","i","o","n"," ","L","i","m","i","t","e","d">>>>,
  <<<<"g","a","i","l">>, <<"G","a","s"," ","A","u","t","h","o","r","i","t","y"," ","o","f"," ","I","n","d","i","a"," ","L","i","m","i","t","e","d">>>>,
  <<<<"s","e","z">>, <<"S","p","e","c","i","a","l"," ","E","c","o","n","o","m","i","c"," ","Z","o","n","e">>>>,
  <<<<"d","f","c">>, <<"D","e","d","i","c","a","t","e","d"," ","F","r","e","i","g","h","t"," ","C","o","r","r","i","d","o","r">>>>,
  <<<<"h","s","r","l">>, <<"H","i","g","h"," ","S","p","e","e","d"," ","R","a","i","l"," ","L","i","n","k">>>>,
  <<<<"d","r","d","o">>, <<"D","e","f","e","n","c","e"," ","R","e","s","e","a","r","c","h"," ","a","n","d"," ","D","e","v","e","l","o","p","m","e","n","t"," ","O","r","g","a","n","i","s","a","t","i","o","n">>>>,
  <<<<"i","s","r","o">>, <<"I","n","d","i","a","n"," ","S","p","a","c","e"," ","R","e","s","e","a","r","c","h"," ","O","r","g","a","n","i","s","a","t","i","o","n">>>>,
  <<<<"h","a","l">>, <<"H","i","n","d","u","s","t","a","n"," ","A","e","r","o","n","a","u","t","i","c","s"," ","L","i","m","i","t","e","d">>>>,
  <<<<"b","e","l">>, <<"B","h","a","r","a","t"," ","E","l","e","c","t","r","o","n","i","c","s"," ","L","i","m","i","t","e","d">>>>,
  <<<<"b","d","l">>, <<"B","h","a","r","a","t"," ","D","y","n","a","m","i","c","s"," ","L","i","m","i","t","e","d">>>>,
  <<<<"b","e","m","l">>, <<"B","h","a","r","a","t"," ","E","a","r","t","h"," ","M","o","v","e","r","s"," ","L","i","m","i","t","e","d">>>>,
  <<<<"o","e","m">>, <<"O","r","i","g","i","n","a","l"," ","E","q","u","i","p","m","e","n","t"," ","M","a","n","u","f","a","c","t","u","r","e","r">>>>,
  <<<<"b","s","e">>, <<"B","o","m","b","a","y"," ","S","t","o","c","k"," ","E","x","c","h","a","n","g","e">>>>,
  <<<<"n","s","e">>, <<"N","a","t","i","o","n","a","l"," ","S","t","o","c","k"," ","E","x","c","h","a","n","g","e">>>>,
  <<<<"n","s","d","l">>, <<"N","a","t","i","o","n","a","l"," ","S","e","c","u","r","i","t","i","e","s"," ","D","e","p","o","s","i","t","o","r","y"," ","L","i","m","i","t","e","d">>>>,
  <<<<"c","d","s","l">>, <<"C","e","n","t","r","a","l"," ","D","e","p","o","s","i","t","o","r","y"," ","S","e","r","v","i","c","e","s"," ","L","i","m","i","t","e","d">>>>,
  <<<<"i","f","c">>, <<"I","n","t","e","r","n","a","t","i","o","n","a","l"," ","F","i","n","a","n","c","e"," ","C","o","r","p","o","r","a","t","i","o","n">>>>,
  <<<<"i","m","f">>, <<"I","n","t","e","r","n","a","t","i","o","n","a","l"," ","M","o","n","e","t","a","r","y"," ","F","u","n","d">>>>,
  <<<<"w","b">>, <<"W","o","r","l","d"," ","B","a","n","k">>>>,
  <<<<"a","d","b">>, <<"A","s","i","a","n"," ","D","e","v","e","l","o","p","m","e","n","t"," ","B","a","n","k">>>>,
  <<<<"a","i","i","b">>, <<"A","s","i","a","n"," ","I","n","f","r","a","s","t","r","u","c","t","u","r","e"," ","I","n","v","e","s","t","m","e","n","t"," ","B","a","n","k">>>>,
  <<<<"n","d","b">>, <<"N","e","w"," ","D","e","v","e","l","o","p","m","e","n","t"," ","B","a","n","k">>>>,
  <<<<"w","t","o">>, <<"W","o","r","l","d"," ","T","r","a","d","e"," ","O","r","g","a","n","i","z","a","t","i","o","n">>>>,
  <<<<"r","c","e","p">>, <<"R","e","g","i","o","n","a","l"," ","C","o","m","p","r","e","h","e","n","s","i","v","e"," ","E","c","o","n","o","m","i","c"," ","P","a","r","t","n","e","r","s","h","i","p">>>>,
  <<<<"b","r","i","c","s">>, <<"B","r","a","z","i","l"," ","R","u","s","s","i","a"," ","I","n","d","i","a"," ","C","h","i","n","a"," ","S","o","u","t","h"," ","A","f","r","i","c","a">>>>,
  <<<<"s","a","a","r","c">>, <<"S","o","u","t","h"," ","A","s","i","a","n"," ","A","s","s","o","c","i","a","t","i","o","n"," ","f","o","r"," ","R","e","g","i","o","n","a","l"," ","C","o","o","p","e","r","a","t","i","o","n">>>>,
  <<<<"a","s","e","a","n">>, <<"A","s","s","o","c","i","a","t","i","o","n"," ","o","f"," ","S","o","u","t","h","e","a","s","t"," ","A","s","i","a","n"," ","N","a","t","i","o","n","s">>>>,
  <<<<"g","2","0">>, <<"G","r","o","u","p"," ","o","f"," ","T","w","e","n","t","y">>>>,
  <<<<"q","u","a","d">>, <<"Q","u","a","d","r","i","l","a","t","e","r","a","l"," ","S","e","c","u","r","i","t","y"," ","D","i","a","l","o","g","u","e">>>>
>>

\* src/unnamed/part_008:270 STOPWORDS
STOPWORDS_V62 == {
  <<"t","h","e">>,
  <<"a">>,
  <<"a","n">>,
  <<"a","n","d">>,
  <<"o","r">>,
  <<"b","u","t">>,
  <<"i","n">>,
  <<"o","n">>,
  <<"a","t">>,
  <<"t","o">>,
  <<"f","o","r">>,
  <<"o","f">>,
  <<"w","i","t","h">>,
  <<"b","y">>,
  <<"f","r","o","m">>,
  <<"a","s">>,
  <<"i","s">>,
  <<"w","a","s">>,
  <<"a","r","e">>,
  <<"w","e","r","e">>,
  <<"b","e","e","n">>,
  <<"b","e">>,
  <<"h","a","v","e">>,
  <<"h","a","s">>,
  <<"h","a","d">>,
  <<"d","o">>,
  <<"d","o","e","s">>,
  <<"d","i","d">>,
  <<"w","i","l","l">>,
  <<"w","o","u","l","d">>,
  <<"c","o","u","l","d">>,
  <<"s","h","o","u","l","d">>,
  <<"m","a","y">>,
  <<"m","i","g","h","t">>,
  <<"m","u","s","t">>,
  <<"s","h","a","l","l">>,
  <<"c","a","n">>,
  <<"n","e","e","d">>,
  <<"t","h","a","t">>,
  <<"w","h","i","c","h">>,
  <<"w","h","o">>,
  <<"w","h","o","m">>,
  <<"t","h","i","s">>,
  <<"t","h","e","s","e">>,
  <<"t","h","o","s","e">>,
  <<"i","t">>,
  <<"i","t","s">>,
  <<"n","o","t">>,
  <<"n","o">>,
  <<"n","o","r">>,
  <<"s","o">>,
  <<"t","h","a","n">>,
  <<"t","o","o">>,
  <<"v","e","r","y">>,
  <<"j","u","s","t">>,
  <<"a","l","s","o">>,
  <<"o","n","l","y">>,
  <<"e","v","e","n">>,
  <<"m","o","r","e">>,
  <<"m","o","s","t">>,
  <<"o","t","h","e","r">>,
  <<"s","o","m","e">>,
  <<"a","n","y">>,
  <<"a","l","l">>,
  <<"e","a","c","h">>,
  <<"e","v","e","r","y">>,
  <<"b","o","t","h">>,
  <<"f","e","w">>,
  <<"m","a","n","y">>,
  <<"m","u","c","h">>,
  <<"s","u","c","h">>,
  <<"o","w","n">>,
  <<"s","a","m","e">>,
  <<"a","b","o","u","t">>,
  <<"i","n","t","o">>,
  <<"t","h","r","o","u","g","h">>,
  <<"d","u","r","i","n","g">>,
  <<"b","e","f","o","r","e">>,
  <<"a","f","t","e","r">>,
  <<"a","b","o","v","e">>,
  <<"b","e","l","o","w">>,
  <<"b","e","t","w","e","e","n">>,
  <<"u","n","d","e","r">>,
  <<"a","g","a","i","n">>,
  <<"f","u","r","t","h","e","r">>,
  <<"t","h","e","n">>,
  <<"o","n","c","e">>,
  <<"h","e","r","e">>,
  <<"t","h","e","r","e">>,
  <<"w","h","e","n">>,
  <<"w","h","e","r","e">>,
  <<"w","h","y">>,
  <<"h","o","w">>,
  <<"w","h","a","t">>,
  <<"i","f">>,
  <<"b","e","c","a","u","s","e">>,
  <<"u","n","t","i","l">>,
  <<"w","h","i","l","e">>,
  <<"a","l","t","h","o","u","g","h">>,
  <<"t","h","o","u","g","h">>,
  <<"u","n","l","e","s","s">>,
  <<"w","h","e","t","h","e","r">>,
  <<"y","e","t">>,
  <<"h","o","w","e","v","e","r">>,
  <<"t","h","e","r","e","f","o","r","e">>,
  <<"t","h","u","s">>,
  <<"h","e","n","c","e">>,
  <<"b","e","i","n","g">>,
  <<"h","a","v","i","n","g">>,
  <<"d","o","i","n","g">>,
  <<"g","o","i","n","g">>,
  <<"c","o","m","i","n","g">>,
  <<"g","e","t","t","i","n","g">>,
  <<"s","a","i","d">>,
  <<"s","a","y","s">>,
  <<"t","o","l","d">>,
  <<"a","d","d","e","d">>,
  <<"n","o","t","e","d">>,
  <<"s","t","a","t","e","d">>,
  <<"a","c","c","o","r","d","i","n","g">>,
  <<"r","e","p","o","r","t">>,
  <<"r","e","p","o","r","t","s">>,
  <<"r","e","p","o","r","t","e","d">>,
  <<"r","e","p","o","r","t","i","n","g">>,
  <<"n","e","w","s">>,
  <<"a","r","t","i","c","l","e">>,
  <<"s","o","u","r","c","e","s">>,
  <<"o","f","f","i","c","i","a","l","s">>,
  <<"o","f","f","i","c","i","a","l">>,
  <<"s","p","o","k","e","s","p","e","r","s","o","n">>,
  <<"a","n","n","o","u","n","c","e","m","e","n","t">>,
  <<"a","n","n","o","u","n","c","e","d">>,
  <<"s","t","a","t","e","m","e","n","t">>,
  <<"s","t","a","t","e","m","e","n","t","s">>,
  <<"m","e","n","t","i","o","n","e","d">>,
  <<"c","l","a","i","m","e","d">>,
  <<"r","e","v","e","a","l","e","d">>,
  <<"d","i","s","c","l","o","s","e","d">>,
  <<"c","o","n","f","i","r","m","e","d">>,
  <<"d","e","n","i","e","d">>,
  <<"a","l","l","e","g","e","d">>,
  <<"u","p","d","a","t","e">>,
  <<"u","p","d","a","t","e","s">>,
  <<"u","p","d","a","t","e","d">>,
  <<"l","a","t","e","s","t">>,
  <<"r","e","c","e","n","t">>,
  <<"n","e","w">>,
  <<"t","o","d","a","y">>,
  <<"y","e","s","t","e","r","d","a","y">>,
  <<"t","o","m","o","r","r","o","w">>,
  <<"w","e","e","k">>,
  <<"m","o","n","t","h">>,
  <<"y","e","a","r">>,
  <<"m","o","n","d","a","y">>,
  <<"t","u","e","s","d","a","y">>,
  <<"w","e","d","n","e","s","d","a","y">>,
  <<"t","h","u","r","s","d","a","y">>,
  <<"f","r","i","d","a","y">>,
  <<"s","a","t","u","r","d","a","y">>,
  <<"s","u","n","d","a","y">>,
  <<"j","a","n","u","a","r","y">>,
  <<"f","e","b","r","u","a","r","y">>,
  <<"m","a","r","c","h">>,
  <<"a","p","r","i","l">>,
  <<"j","u","n","e">>,
  <<"j","u","l","y">>,
  <<"a","u","g","u","s","t">>,
  <<"s","e","p","t","e","m","b","e","r">>,
  <<"o","c","t","o","b","e","r">>,
  <<"n","o","v","e","m","b","e","r">>,
  <<"d","e","c","e","m","b","e","r">>,
  <<"l","a","k","h">>,
  <<"l","a","k","h","s">>,
  <<"c","r","o","r","e">>,
  <<"c","r","o","r","e","s">>,
  <<"r","u","p","e","e">>,
  <<"r","u","p","e","e","s">>,
  <<"r","s">>,
  <<"i","n","r">>,
  <<"p","e","r">>,
  <<"c","e","n","t">>,
  <<"p","e","r","c","e","n","t">>,
  <<"p","e","r","c","e","n","t","a","g","e">>,
  <<"g","o","v","t">>,
  <<"g","o","v","e","r","n","m","e","n","t">>,
  <<"c","e","n","t","r","a","l">>,
  <<"s","t","a","t","e">>,
  <<"u","n","i","o","n">>,
  <<"n","a","t","i","o","n","a","l">>,
  <<"d","e","l","h","i">>,
  <<"m","u","m","b","a","i">>,
  <<"k","o","l","k","a","t","a">>,
  <<"c","h","e","n","n","a","i">>,
  <<"b","a","n","g","a","l","o","r","e">>,
  <<"b","e","n","g","a","l","u","r","u">>,
  <<"h","y","d","e","r","a","b","a","d">>,
  <<"a","h","m","e","d","a","b","a","d">>,
  <<"p","u","n","e">>,
  <<"j","a","i","p","u","r">>,
  <<"l","u","c","k","n","o","w">>,
  <<"k","a","n","p","u","r">>,
  <<"n","a","g","p","u","r">>,
  <<"i","n","d","o","r","e">>,
  <<"t","h","a","n","e">>,
  <<"b","h","o","p","a","l">>,
  <<"v","i","s","a","k","h","a","p","a","t","n","a","m">>,
  <<"p","a","t","n","a">>,
  <<"v","a","d","o","d","a","r","a">>,
  <<"g","h","a","z","i","a","b","a","d">>,
  <<"l","u","d","h","i","a","n","a">>,
  <<"a","g","r","a">>,
  <<"n","a","s","h","i","k">>,
  <<"f","a","r","i","d","a","b","a","d">>,
  <<"m","e","e","r","u","t">>,
  <<"r","a","j","k","o","t">>,
  <<"k","a","l","y","a","n">>,
  <<"v","a","s","a","i">>,
  <<"v","a","r","a","n","a","s","i">>,
  <<"s","r","i","n","a","g","a","r">>,
  <<"a","u","r","a","n","g","a","b","a","d">>,
  <<"d","h","a","n","b","a","d">>,
  <<"a","m","r","i","t","s","a","r">>,
  <<"n","a","v","i">>,
  <<"a","l","l","a","h","a","b","a","d">>,
  <<"h","o","w","r","a","h">>,
  <<"r","a","n","c","h","i">>,
  <<"j","a","b","a","l","p","u","r">>,
  <<"g","w","a","l","i","o","r">>,
  <<"v","i","j","a","y","a","w","a","d","a">>,
  <<"j","o","d","h","p","u","r">>,
  <<"m","a","d","u","r","a","i">>,
  <<"r","a","i","p","u","r">>,
  <<"k","o","t","a">>,
  <<"c","h","a","n","d","i","g","a","r","h">>,
  <<"g","u","w","a","h","a","t","i">>,
  <<"s","o","l","a","p","u","r">>,
  <<"h","u","b","l","i">>,
  <<"m","a","h","a","r","a","s","h","t","r","a">>,
  <<"u","t","t","a","r"," ","p","r","a","d","e","s","h">>,
  <<"b","i","h","a","r">>,
  <<"w","e","s","t"," ","b","e","n","g","a","l">>,
  <<"m","a","d","h","y","a"," ","p","r","a","d","e","s","h">>,
  <<"t","a","m","i","l"," ","n","a","d","u">>,
  <<"r","a","j","a","s","t","h","a","n">>,
  <<"k","a","r","n","a","t","a","k","a">>,
  <<"g","u","j","a","r","a","t">>,
  <<"a","n","d","h","r","a"," ","p","r","a","d","e","s","h">>,
  <<"o","d","i","s","h","a">>,
  <<"t","e","l","a","n","g","a","n","a">>,
  <<"k","e","r","a","l","a">>,
  <<"j","h","a","r","k","h","a","n","d">>,
  <<"a","s","s","a","m">>,
  <<"p","u","n","j","a","b">>,
  <<"c","h","h","a","t","t","i","s","g","a","r","h">>,
  <<"h","a","r","y","a","n","a">>,
  <<"u","t","t","a","r","a","k","h","a","n","d">>,
  <<"h","i","m","a","c","h","a","l"," ","p","r","a","d","e","s","h">>,
  <<"t","r","i","p","u","r","a">>,
  <<"m","e","g","h","a","l","a","y","a">>,
  <<"m","a","n","i","p","u","r">>,
  <<"n","a","g","a","l","a","n","d">>,
  <<"g","o","a">>,
  <<"a","r","u","n","a","c","h","a","l"," ","p","r","a","d","e","s","h">>,
  <<"m","i","z","o","r","a","m">>,
  <<"s","i","k","k","i","m">>,
  <<"c","o","m","p","a","n","y">>,
  <<"c","o","m","p","a","n","i","e","s">>,
  <<"f","i","r","m">>,
  <<"f","i","r","m","s">>,
  <<"b","u","s","i","n","e","s","s">>,
  <<"b","u","s","i","n","e","s","s","e","s">>,
  <<"i","n","d","u","s","t","r","y">>,
  <<"i","n","d","u","s","t","r","i","e","s">>,
  <<"s","e","c","t","o","r">>,
  <<"s","e","c","t","o","r","s">>,
  <<"m","a","r","k","e","t">>,
  <<"m","a","r","k","e","t","s">>,
  <<"g","r","o","w","t","h">>,
  <<"d","e","v","e","l","o","p","m","e","n","t">>,
  <<"p","l","a","n">>,
  <<"p","l","a","n","s">>,
  <<"p","l","a","n","n","i","n","g">>,
  <<"p","r","o","p","o","s","e","d">>,
  <<"p","r","o","p","o","s","a","l">>,
  <<"p","r","o","p","o","s","a","l","s">>,
  <<"i","n","i","t","i","a","t","i","v","e">>,
  <<"i","n","i","t","i","a","t","i","v","e","s">>,
  <<"s","c","h","e","m","e">>,
  <<"s","c","h","e","m","e","s">>,
  <<"p","r","o","g","r","a","m">>,
  <<"p","r","o","g","r","a","m","m","e">>,
  <<"p","r","o","g","r","a","m","s">>,
  <<"p","r","o","g","r","a","m","m","e","s">>,
  <<"p","r","o","j","e","c","t">>,
  <<"p","r","o","j","e","c","t","s">>,
  <<"e","x","p","e","c","t","e","d">>,
  <<"l","i","k","e","l","y">>,
  <<"s","e","t">>,
  <<"l","o","o","k">>,
  <<"l","o","o","k","s">>,
  <<"l","o","o","k","i","n","g">>,
  <<"m","o","v","e">>,
  <<"m","o","v","e","s">>,
  <<"m","o","v","i","n","g">>,
  <<"s","t","e","p">>,
  <<"s","t","e","p","s">>,
  <<"w","a","y">>,
  <<"w","a","y","s">>,
  <<"p","a","r","t">>,
  <<"p","a","r","t","s">>,
  <<"o","r","d","e","r">>,
  <<"o","r","d","e","r","s">>,
  <<"d","e","c","i","s","i","o","n">>,
  <<"d","e","c","i","s","i","o","n","s">>,
  <<"m","a","d","e">>,
  <<"m","a","k","e">>,
  <<"m","a","k","i","n","g">>,
  <<"t","a","k","e">>,
  <<"t","a","k","e","s">>,
  <<"t","a","k","i","n","g">>,
  <<"t","a","k","e","n">>,
  <<"g","i","v","e">>,
  <<"g","i","v","e","s">>,
  <<"g","i","v","e","n">>,
  <<"g","i","v","i","n","g">>,
  <<"g","e","t">>,
  <<"g","e","t","s">>,
  <<"g","o","t">>,
  <<"p","u","t">>,
  <<"p","u","t","s">>,
  <<"p","u","t","t","i","n","g">>,
  <<"c","o","m","e">>,
  <<"c","o","m","e","s">>,
  <<"c","a","m","e">>,
  <<"g","o">>,
  <<"g","o","e","s">>,
  <<"w","e","n","t">>,
  <<"g","o","n","e">>,
  <<"s","e","e">>,
  <<"s","e","e","s">>,
  <<"s","a","w">>,
  <<"s","e","e","n">>,
  <<"k","n","o","w">>,
  <<"k","n","o","w","s">>,
  <<"k","n","e","w">>,
  <<"k","n","o","w","n">>,
  <<"t","h","i","n","k">>,
  <<"t","h","i","n","k","s">>,
  <<"t","h","o","u","g","h","t">>,
  <<"w","a","n","t">>,
  <<"w","a","n","t","s">>,
  <<"w","a","n","t","e","d">>,
  <<"u","s","e">>,
  <<"u","s","e","s">>,
  <<"u","s","e","d">>,
  <<"u","s","i","n","g">>,
  <<"i","n","c","l","u","d","e">>,
  <<"i","n","c","l","u","d","e","s">>,
  <<"i","n","c","l","u","d","i","n","g">>,
  <<"i","n","c","l","u","d","e","d">>,
  <<"n","e","e","d","s">>,
  <<"n","e","e","d","e","d">>,
  <<"w","o","r","k">>,
  <<"w","o","r","k","s">>,
  <<"w","o","r","k","e","d">>,
  <<"w","o","r","k","i","n","g">>,
  <<"h","e","l","p">>,
  <<"h","e","l","p","s">>,
  <<"h","e","l","p","e","d">>,
  <<"h","e","l","p","i","n","g">>,
  <<"s","h","o","w">>,
  <<"s","h","o","w","s">>,
  <<"s","h","o","w","e","d">>,
  <<"s","h","o","w","n">>,
  <<"t","r","y">>,
  <<"t","r","i","e","s">>,
  <<"t","r","i","e","d">>,
  <<"t","r","y","i","n","g">>,
  <<"k","e","e","p">>,
  <<"k","e","e","p","s">>,
  <<"k","e","p","t">>,
  <<"k","e","e","p","i","n","g">>,
  <<"l","e","t">>,
  <<"l","e","t","s">>,
  <<"l","e","a","v","e">>,
  <<"l","e","a","v","e","s">>,
  <<"l","e","f","t">>,
  <<"b","e","g","i","n">>,
  <<"b","e","g","i","n","s">>,
  <<"b","e","g","a","n">>,
  <<"s","e","e","m">>,
  <<"s","e","e","m","s">>,
  <<"s","e","e","m","e","d">>,
  <<"f","e","e","l">>,
  <<"f","e","e","l","s">>,
  <<"f","e","l","t">>,
  <<"b","e","c","o","m","e">>,
  <<"b","e","c","o","m","e","s">>,
  <<"b","e","c","a","m","e">>,
  <<"c","a","l","l">>,
  <<"c","a","l","l","s">>,
  <<"c","a","l","l","e","d">>,
  <<"c","a","l","l","i","n","g">>,
  <<"a","s","k">>,
  <<"a","s","k","s">>,
  <<"a","s","k","e","d">>,
  <<"r","u","n">>,
  <<"r","u","n","s">>,
  <<"r","a","n">>,
  <<"r","u","n","n","i","n","g">>,
  <<"t","u","r","n">>,
  <<"t","u","r","n","s">>,
  <<"t","u","r","n","e","d">>,
  <<"t","u","r","n","i","n","g">>,
  <<"h","o","l","d">>,
  <<"h","o","l","d","s">>,
  <<"h","e","l","d">>,
  <<"h","o","l","d","i","n","g">>,
  <<"b","r","i","n","g">>,
  <<"b","r","i","n","g","s">>,
  <<"b","r","o","u","g","h","t">>,
  <<"w","r","i","t","e">>,
  <<"w","r","i","t","e","s">>,
  <<"w","r","o","t","e">>,
  <<"w","r","i","t","t","e","n">>,
  <<"p","r","o","v","i","d","e">>,
  <<"p","r","o","v","i","d","e","s">>,
  <<"p","r","o","v","i","d","e","d">>,
  <<"c","o","n","t","i","n","u","e">>,
  <<"c","o","n","t","i","n","u","e","s">>,
  <<"c","o","n","t","i","n","u","e","d">>,
  <<"f","o","l","l","o","w">>,
  <<"f","o","l","l","o","w","s">>,
  <<"f","o","l","l","o","w","e","d">>,
  <<"s","t","o","p">>,
  <<"s","t","o","p","s">>,
  <<"s","t","o","p","p","e","d">>,
  <<"c","r","e","a","t","e">>,
  <<"c","r","e","a","t","e","s">>,
  <<"c","r","e","a","t","e","d">>,
  <<"c","r","e","a","t","i","n","g">>,
  <<"s","p","e","a","k">>,
  <<"s","p","e","a","k","s">>,
  <<"s","p","o","k","e">>,
  <<"s","p","o","k","e","n">>,
  <<"r","e","a","d">>,
  <<"r","e","a","d","s">>,
  <<"a","l","l","o","w">>,
  <<"a","l","l","o","w","s">>,
  <<"a","d","d">>,
  <<"a","d","d","s">>,
  <<"s","p","e","n","d">>,
  <<"s","p","e","n","d","s">>,
  <<"s","p","e","n","t">>,
  <<"w","i","n">>,
  <<"w","i","n","s">>,
  <<"w","o","n">>,
  <<"o","f","f","e","r">>,
  <<"o","f","f","e","r","s">>,
  <<"o","f","f","e","r","e","d">>,
  <<"r","e","m","e","m","b","e","r">>,
  <<"c","o","n","s","i","d","e","r","s">>,
  <<"a","p","p","e","a","r">>,
  <<"a","p","p","e","a","r","s">>,
  <<"b","u","y">>,
  <<"b","u","y","s">>,
  <<"b","o","u","g","h","t">>,
  <<"w","a","i","t">>,
  <<"w","a","i","t","s">>,
  <<"s","e","r","v","e">>,
  <<"s","e","r","v","e","s">>,
  <<"d","i","e">>,
  <<"d","i","e","s">>,
  <<"s","e","n","d">>,
  <<"s","e","n","d","s">>,
  <<"s","e","n","t">>,
  <<"e","x","p","e","c","t">>,
  <<"e","x","p","e","c","t","s">>,
  <<"b","u","i","l","d">>,
  <<"b","u","i","l","d","s">>,
  <<"b","u","i","l","t">>,
  <<"s","t","a","y">>,
  <<"s","t","a","y","s">>,
  <<"f","a","l","l">>,
  <<"f","a","l","l","s">>,
  <<"f","e","l","l">>,
  <<"c","u","t">>,
  <<"c","u","t","s">>,
  <<"r","e","a","c","h">>,
  <<"r","e","a","c","h","e","s">>,
  <<"k","i","l","l">>,
  <<"k","i","l","l","s">>,
  <<"r","e","m","a","i","n">>,
  <<"r","e","m","a","i","n","s">>,
  <<"s","u","g","g","e","s","t">>,
  <<"s","u","g","g","e","s","t","s">>,
  <<"r","a","i","s","e">>,
  <<"r","a","i","s","e","s">>,
  <<"p","a","s","s">>,
  <<"p","a","s","s","e","s">>,
  <<"p","a","s","s","e","d">>,
  <<"s","e","l","l">>,
  <<"s","e","l","l","s">>,
  <<"s","o","l","d">>,
  <<"r","e","q","u","i","r","e">>,
  <<"r","e","q","u","i","r","e","s">>,
  <<"m","e","e","t">>,
  <<"m","e","e","t","s">>,
  <<"m","e","t">>,
  <<"p","a","y">>,
  <<"p","a","y","s">>,
  <<"p","a","i","d">>,
  <<"h","e","a","r">>,
  <<"h","e","a","r","s">>,
  <<"h","e","a","r","d">>,
  <<"l","o","s","e">>,
  <<"l","o","s","e","s">>,
  <<"l","o","s","t">>,
  <<"w","a","t","c","h">>,
  <<"w","a","t","c","h","e","s">>,
  <<"c","a","r","r","y">>,
  <<"c","a","r","r","i","e","s">>,
  <<"c","a","r","r","i","e","d">>,
  <<"c","a","u","s","e">>,
  <<"c","a","u","s","e","s">>,
  <<"c","a","u","s","e","d">>,
  <<"s","u","p","p","o","r","t">>,
  <<"s","u","p","p","o","r","t","s">>,
  <<"s","u","p","p","o","r","t","e","d">>,
  <<"h","i","t">>,
  <<"h","i","t","s">>,
  <<"p","r","o","d","u","c","e">>,
  <<"p","r","o","d","u","c","e","s">>,
  <<"c","h","a","n","g","e">>,
  <<"c","h","a","n","g","e","s">>,
  <<"c","h","a","n","g","e","d">>
}

\* src/unnamed/part_008:373 SYNONYMS, <<alternate, canonical>>
SYNONYMS_V62 == <<
  <<<<"r","b","i">>, <<"r","e","s","e","r","v","e"," ","b","a","n","k"," ","o","f"," ","i","n","d","i","a">>>>,
  <<<<"r","e","s","e","r","v","e"," ","b","a","n","k">>, <<"r","e","s","e","r","v","e"," ","b","a","n","k"," ","o","f"," ","i","n","d","i","a">>>>,
  <<<<"s","e","b","i">>, <<"s","e","c","u","r","i","t","i","e","s"," ","e","x","c","h","a","n","g","e"," ","b","o","a","r","d">>>>,
  <<<<"s","e","c","u","r","i","t","i","e","s"," ","b","o","a","r","d">>, <<"s","e","c","u","r","i","t","i","e","s"," ","e","x","c","h","a","n","g","e"," ","b","o","a","r","d">>>>,
  <<<<"g","s","t">>, <<"g","o","o","d","s"," ","a","n","d"," ","s","e","r","v","i","c","e","s"," ","t","a","x">>>>,
  <<<<"g","o","o","d","s"," ","s","e","r","v","i","c","e","s"," ","t","a","x">>, <<"g","o","o","d","s"," ","a","n","d"," ","s","e","r","v","i","c","e","s"," ","t","a","x">>>>,
  <<<<"u","p","i">>, <<"u","n","i","f","i","e","d"," ","p","a","y","m","e","n","t","s"," ","i","n","t","e","r","f","a","c","e">>>>,
  <<<<"d","i","g","i","t","a","l"," ","p","a","y","m","e","n","t","s">>, <<"u","n","i","f","i","e","d"," ","p","a","y","m","e","n","t","s"," ","i","n","t","e","r","f","a","c","e">>>>,
  <<<<"c","b","d","c">>, <<"c","e","n","t","r","a","l"," ","b","a","n","k"," ","d","i","g","i","t","a","l"," ","c","u","r","r","e","n","c","y">>>>,
  <<<<"d","i","g","i","t","a","l"," ","r","u","p","e","e">>, <<"c","e","n","t","r","a","l"," ","b","a","n","k"," ","d","i","g","i","t","a","l"," ","c","u","r","r","e","n","c","y">>>>,
  <<<<"d","p","d","p">>, <<"d","a","t","a"," ","p","r","o","t","e","c","t","i","o","n">>>>,
  <<<<"p","d","p","b">>, <<"d","a","t","a"," ","p","r","o","t","e","c","t","i","o","n">>>>,
  <<<<"p","e","r","s","o","n","a","l"," ","d","a","t","a"," ","p","r","o","t","e","c","t","i","o","n">>, <<"d","a","t","a"," ","p","r","o","t","e","c","t","i","o","n">>>>,
  <<<<"d","i","g","i","t","a","l"," ","p","e","r","s","o","n","a","l"," ","d","a","t","a">>, <<"d","a","t","a"," ","p","r","o","t","e","c","t","i","o","n">>>>,
  <<<<"n","p","a">>, <<"n","o","n"," ","p","e","r","f","o","r","m","i","n","g"," ","a","s","s","e","t","s">>>>,
  <<<<"n","o","n","-","p","e","r","f","o","r","m","i","n","g"," ","a","s","s","e","t">>, <<"n","o","n"," ","p","e","r","f","o","r","m","i","n","g"," ","a","s","s","e","t","s">>>>,
  <<<<"b","a","d"," ","l","o","a","n","s">>, <<"n","o","n"," ","p","e","r","f","o","r","m","i","n","g"," ","a","s","s","e","t","s">>>>,
  <<<<"f","d","i">>, <<"f","o","r","e","i","g","n"," ","d","i","r","e","c","t"," ","i","n","v","e","s","t","m","e","n","t">>>>,
  <<<<"f","o","r","e","i","g","n"," ","i","n","v","e","s","t","m","e","n","t">>, <<"f","o","r","e","i","g","n"," ","d","i","r","e","c","t"," ","i","n","v","e","s","t","m","e","n","t">>>>,
  <<<<"i","b","c">>, <<"i","n","s","o","l","v","e","n","c","y"," ","b","a","n","k","r","u","p","t","c","y">>>>,
  <<<<"b","a","n","k","r","u","p","t","c","y"," ","c","o","d","e">>, <<"i","n","s","o","l","v","e","n","c","y"," ","b","a","n","k","r","u","p","t","c","y">>>>,
  <<<<"e","s","g">>, <<"e","n","v","i","r","o","n","m","e","n","t","a","l"," ","s","o","c","i","a","l"," ","g","o","v","e","r","n","a","n","c","e">>>>,
  <<<<"s","u","s","t","a","i","n","a","b","l","e"," ","i","n","v","e","s","t","i","n","g">>, <<"e","n","v","i","r","o","n","m","e","n","t","a","l"," ","s","o","c","i","a","l"," ","g","o","v","e","r","n","a","n","c","e">>>>,
  <<<<"a","i">>, <<"a","r","t","i","f","i","c","i","a","l"," ","i","n","t","e","l","l","i","g","e","n","c","e">>>>,
  <<<<"m","a","c","h","i","n","e"," ","l","e","a","r","n","i","n","g">>, <<"a","r","t","i","f","i","c","i","a","l"," ","i","n","t","e","l","l","i","g","e","n","c","e">>>>,
  <<<<"e","l","e","c","t","r","i","c"," ","v","e","h","i","c","l","e","s">>, <<"e","l","e","c","t","r","i","c"," ","v","e","h","i","c","l","e">>>>,
  <<<<"e","v">>, <<"e","l","e","c","t","r","i","c"," ","v","e","h","i","c","l","e">>>>,
  <<<<"e","v","s">>, <<"e","l","e","c","t","r","i","c"," ","v","e","h","i","c","l","e">>>>,
  <<<<"r","e","n","e","w","a","b","l","e">>, <<"r","e","n","e","w","a","b","l","e"," ","e","n","e","r","g","y">>>>,
  <<<<"s","o","l","a","r">>, <<"r","e","n","e","w","a","b","l","e"," ","e","n","e","r","g","y">>>>,
  <<<<"w","i","n","d"," ","p","o","w","e","r">>, <<"r","e","n","e","w","a","b","l","e"," ","e","n","e","r","g","y">>>>,
  <<<<"c","l","e","a","n"," ","e","n","e","r","g","y">>, <<"r","e","n","e","w","a","b","l","e"," ","e","n","e","r","g","y">>>>,
  <<<<"f","i","n","t","e","c","h">>, <<"f","i","n","a","n","c","i","a","l"," ","t","e","c","h","n","o","l","o","g","y">>>>,
  <<<<"n","e","o"," ","b","a","n","k">>, <<"f","i","n","a","n","c","i","a","l"," ","t","e","c","h","n","o","l","o","g","y">>>>,
  <<<<"d","i","g","i","t","a","l"," ","b","a","n","k">>, <<"f","i","n","a","n","c","i","a","l"," ","t","e","c","h","n","o","l","o","g","y">>>>,
  <<<<"o","n","d","c">>, <<"o","p","e","n"," ","n","e","t","w","o","r","k"," ","d","i","g","i","t","a","l"," ","c","o","m","m","e","r","c","e">>>>,
  <<<<"s","t","a","r","t","u","p">>, <<"s","t","a","r","t","u","p","s">>>>,
  <<<<"s","t","a","r","t","-","u","p">>, <<"s","t","a","r","t","u","p","s">>>>,
  <<<<"s","t","a","r","t"," ","u","p">>, <<"s","t","a","r","t","u","p","s">>>>
>>

\* The alternatives of NAME_PATTERNS[0]
TITLES_V62 == {
  <<"m","r">>,
  <<"m","r","s">>,
  <<"m","s">>,
  <<"d","r">>,
  <<"p","r","o","f">>,
  <<"s","h","r","i">>,
  <<"s","m","t">>,
  <<"k","m">>,
  <<"j","u","s","t","i","c","e">>,
  <<"h","o","n">>,
  <<"a","d","v">>
}

\* The alternatives of NAME_PATTERNS[1]
SURNAMES_V62 == {
  <<"k","u","m","a","r">>,
  <<"s","i","n","g","h">>,
  <<"s","h","a","r","m","a">>,
  <<"v","e","r","m","a">>,
  <<"g","u","p","t","a">>,
  <<"p","a","t","e","l">>,
  <<"r","e","d","d","y">>,
  <<"r","a","o">>,
  <<"n","a","i","r">>,
  <<"i","y","e","r">>,
  <<"m","e","n","o","n">>,
  <<"p","i","l","l","a","i">>,
  <<"d","a","s">>,
  <<"r","o","y">>,
  <<"s","e","n">>,
  <<"b","o","s","e">>,
  <<"c","h","a","t","t","e","r","j","e","e">>,
  <<"b","a","n","e","r","j","e","e">>,
  <<"m","u","k","h","e","r","j","e","e">>,
  <<"g","h","o","s","h">>,
  <<"m","i","s","h","r","a">>,
  <<"p","a","n","d","e","y">>,
  <<"t","i","w","a","r","i">>,
  <<"d","u","b","e","y">>,
  <<"t","r","i","v","e","d","i">>,
  <<"y","a","d","a","v">>,
  <<"c","h","a","u","h","a","n">>,
  <<"r","a","t","h","o","r","e">>,
  <<"r","a","j","p","u","t">>,
  <<"t","h","a","k","u","r">>,
  <<"j","o","s","h","i">>,
  <<"k","u","l","k","a","r","n","i">>,
  <<"d","e","s","h","m","u","k","h">>,
  <<"p","a","t","i","l">>,
  <<"p","a","w","a","r">>,
  <<"c","h","a","v","a","n">>,
  <<"j","a","d","h","a","v">>,
  <<"s","h","i","n","d","e">>,
  <<"g","a","i","k","w","a","d">>,
  <<"k","a","d","a","m">>,
  <<"m","o","r","e">>,
  <<"k","a","l","e">>,
  <<"s","a","w","a","n","t">>,
  <<"d","e","s","h","p","a","n","d","e">>,
  <<"j","a","i","n">>,
  <<"a","g","a","r","w","a","l">>,
  <<"g","o","e","l">>,
  <<"g","o","y","a","l">>,
  <<"m","i","t","t","a","l">>,
  <<"b","a","n","s","a","l">>,
  <<"s","i","n","g","h","a","l">>,
  <<"m","a","h","a","j","a","n">>,
  <<"a","r","o","r","a">>,
  <<"s","u","r","i">>,
  <<"k","h","a","n","n","a">>,
  <<"m","a","l","h","o","t","r","a">>,
  <<"k","a","p","o","o","r">>,
  <<"s","a","h","n","i">>,
  <<"b","h","a","t","i","a">>,
  <<"k","o","h","l","i">>,
  <<"s","e","t","h","i">>,
  <<"s","o","d","h","i">>,
  <<"b","a","j","a","j">>,
  <<"d","h","a","w","a","n">>,
  <<"m","e","h","r","a">>,
  <<"c","h","o","p","r","a">>,
  <<"a","n","a","n","d">>,
  <<"g","r","o","v","e","r">>
}

\* ------------------------------------------------------------------------
\* Table lookups
\* ------------------------------------------------------------------------
\* Names every JavaScript object inherits from Object.prototype that a
\* lower-cased token can spell: SYNONYMS[name] is then a function or an
\* object, not undefined.
OBJECT_PROTOTYPE_KEYS == {
  <<"c","o","n","s","t","r","u","c","t","o","r">>,
  <<"_","_","p","r","o","t","o","_","_">>
}

NoValue == <<>>

\* SYNONYMS[key]: the canonical form, undefined, or an inherited non-string
synonymsGet(key) ==
  IF \E i \in DOMAIN SYNONYMS : SYNONYMS[i][1] = key
  THEN [t |-> "string",
        s |-> SYNONYMS[CHOOSE i \in DOMAIN SYNONYMS : SYNONYMS[i][1] = key][2]]
  ELSE IF key \in OBJECT_PROTOTYPE_KEYS
       THEN [t |-> "object", s |-> NoValue]
       ELSE [t |-> "undefined", s |-> NoValue]

\* SYNONYMS[key] || term
synonymOr(key, term) ==
  LET v == synonymsGet(key)
  IN  IF v.t = "undefined" THEN [t |-> "string", s |-> term] ELSE v

hasAcronym(acr) == \E i \in DOMAIN ACRONYMS : ACRONYMS[i][1] = acr

\* ACRONYMS[acr] || null
acronymsGet(acr) ==
  IF hasAcronym(acr)
  THEN ACRONYMS[CHOOSE i \in DOMAIN ACRONYMS : ACRONYMS[i][1] = acr][2]
  ELSE NoValue

isKnownAcronym(text) == hasAcronym(toUpperCase(text))

\* ------------------------------------------------------------------------
\* Helper functions of src/policy-keywords.js
\* ------------------------------------------------------------------------
\* The while loop of extractPhrases for the phrase at table position p:
\* one copy of the phrase per hit, the scan resuming phrase.length further on.
\* phrase.toLowerCase() for every phrase of the table
LowerPhrases == [p \in DOMAIN POLICY_PHRASES |-> toLowerCase(POLICY_PHRASES[p])]

RECURSIVE phraseHits(_, _, _)
phraseHits(lowerText, p, index) ==
  LET at == indexOf(lowerText, LowerPhrases[p], index)
  IN  IF at = -1 THEN <<>>
      ELSE <<POLICY_PHRASES[p]>> \o phraseHits(lowerText, p, at + Len(POLICY_PHRASES[p]))

\* The first two characters of every lower-cased phrase (no phrase is shorter)
PhraseHead == [p \in DOMAIN POLICY_PHRASES |-> <<LowerPhrases[p][1], LowerPhrases[p][2]>>]

\* The pairs of adjacent characters of s
pairsOf(s) == {<<s[i], s[i + 1]>> : i \in 1..(Len(s) - 1)}

\* POLICY_PHRASES.forEach over the table positions lo..hi, in table order.
\* A phrase whose first two characters are adjacent nowhere in the text has
\* no hit (its first indexOf is -1), which spares the scan.
RECURSIVE extractPhrasesFrom(_, _, _, _)
extractPhrasesFrom(lowerText, pairs, lo, hi) ==
  IF lo > hi THEN <<>>
  ELSE IF lo = hi
       THEN IF PhraseHead[lo] \in pairs THEN phraseHits(lowerText, lo, 0) ELSE <<>>
  ELSE LET mid == (lo + hi) \div 2
       IN  extractPhrasesFrom(lowerText, pairs, lo, mid)
             \o extractPhrasesFrom(lowerText, pairs, mid + 1, hi)

extractPhrases(text) ==
  LET lowerText == toLowerCase(text)
  IN  extractPhrasesFrom(lowerText, pairsOf(lowerText), 1, Len(POLICY_PHRASES))

\* The matches of /\b([A-Z]{2,6})\b/g, left to right. Both \b are word
\* boundaries and [A-Z] is a word character, so a match is exactly a maximal
\* run of word characters that consists of 2 to 6 upper-case letters.
RECURSIVE acronymMatchesFrom(_, _)
acronymMatchesFrom(text, i) ==
  IF i > Len(text) THEN <<>>
  ELSE IF text[i] \notin WordChars THEN acronymMatchesFrom(text, i + 1)
  ELSE LET ends == {j \in i..Len(text) : j = Len(text) \/ text[j + 1] \notin WordChars}
           j    == Min(ends)
           run  == SubSeq(text, i, j)
       IN  (IF /\ Len(run) >= 2
               /\ Len(run) <= 6
               /\ \A k \in 1..Len(run) : run[k] \in UpperSet
            THEN <<run>> ELSE <<>>) \o acronymMatchesFrom(text, j + 1)

extractAcronyms(text) ==
  LET known(acr) == hasAcronym(acr) \/ isKnownAcronym(acr)
  IN  SelectSeq(acronymMatchesFrom(text, 1), known)

TITLES == {<<"s","h","r","i">>, <<"s","m","t">>, <<"m","r">>, <<"m","r","s">>,
           <<"m","s">>, <<"d","r">>, <<"p","r","o","f">>}

\* PERSON_NAME_PATTERNS[0]: /^(shri|smt|mr|mrs|ms|dr|prof)\s+\w+/i
matchesTitle(word) ==
  \E t \in TITLES :
    /\ startsWith(toLowerCase(word), t)
    /\ \E n \in 1..Len(word) :
         /\ Len(t) + n + 1 <= Len(word)
         /\ \A k \in 1..n : word[Len(t) + k] \in SpaceChars
         /\ word[Len(t) + n + 1] \in WordChars

\* PERSON_NAME_PATTERNS[1]: /\w+(kumar|sharma|...|banerjee)$/i
matchesSurname(word) ==
  \E s \in SURNAMES :
    /\ Len(word) > Len(s)
    /\ endsWith(toLowerCase(word), s)
    /\ word[Len(word) - Len(s)] \in WordChars

\* PERSON_NAME_PATTERNS[2]: /^[A-Z][a-z]+$/
matchesCapitalized(word) ==
  /\ Len(word) >= 2
  /\ word[1] \in UpperSet
  /\ \A k \in 2..Len(word) : word[k] \in LowerSet

isPersonName(word) ==
  matchesTitle(word) \/ matchesSurname(word) \/ matchesCapitalized(word)

formatKeyword(word) ==
  IF Len(word) <= 4 /\ word = toUpperCase(word)
  THEN word
  ELSE toUpperCase(SubSeq(word, 1, 1)) \o toLowerCase(sliceFrom(word, 1))

DEFAULT_CATEGORY == "Governance"

\* term.toLowerCase() for every term of every category
LowerTerms ==
  [c \in DOMAIN KEYWORD_CATEGORIES |->
     [k \in DOMAIN KEYWORD_CATEGORIES[c].terms |->
        toLowerCase(KEYWORD_CATEGORIES[c].terms[k])]]

\* The pairs of adjacent characters of every lower-cased term
TermPairs ==
  [c \in DOMAIN KEYWORD_CATEGORIES |->
     [k \in DOMAIN KEYWORD_CATEGORIES[c].terms |-> pairsOf(LowerTerms[c][k])]]

\* lower.includes(term.toLowerCase()) || term.toLowerCase().includes(lower)
\* for the term at position k of category c. A string includes another of
\* two or more characters only if it has the other's first two characters
\* side by side, which spares most scans; pairs is pairsOf(lower).
termMatches(lower, pairs, c, k) ==
  LET lowerTerm == LowerTerms[c][k]
  IN  \/ /\ Len(lowerTerm) < 2 \/ <<lowerTerm[1], lowerTerm[2]>> \in pairs
         /\ includes(lower, lowerTerm)
      \/ /\ Len(lower) < 2 \/ <<lower[1], lower[2]>> \in TermPairs[c][k]
         /\ includes(lowerTerm, lower)

\* A slip: the loop runs on after a match, so the last matching category wins
RECURSIVE lastCategory(_, _, _)
lastCategory(lower, pairs, c) ==
  IF c > Len(KEYWORD_CATEGORIES) THEN DEFAULT_CATEGORY
  ELSE IF \E d \in (c + 1)..Len(KEYWORD_CATEGORIES) :
            \E k \in DOMAIN LowerTerms[d] : termMatches(lower, pairs, d, k)
       THEN lastCategory(lower, pairs, c + 1)
       ELSE IF \E k \in DOMAIN LowerTerms[c] : termMatches(lower, pairs, c, k)
            THEN KEYWORD_CATEGORIES[c].category
            ELSE DEFAULT_CATEGORY

\* The for...of loop over Object.entries(KEYWORD_CATEGORIES) from position c on
RECURSIVE firstCategory(_, _, _)
firstCategory(lower, pairs, c) ==
  IF c > Len(KEYWORD_CATEGORIES) THEN DEFAULT_CATEGORY
  ELSE IF \E k \in DOMAIN LowerTerms[c] : termMatches(lower, pairs, c, k)
       THEN KEYWORD_CATEGORIES[c].category
       ELSE firstCategory(lower, pairs, c + 1)

categorizeKeyword(keyword) ==
  LET lower == toLowerCase(keyword)
  IN  firstCategory(lower, pairsOf(lower), 1)

\* ------------------------------------------------------------------------
\* The result Map of extractKeywords: <<key, value>> pairs in insertion order
\* ------------------------------------------------------------------------
mapHas(m, key) == \E i \in DOMAIN m : m[i].key = key

mapIncrement(m, key) ==
  LET i == CHOOSE i \in DOMAIN m : m[i].key = key
  IN  [m EXCEPT ![i].val.count = @ + 1]

\* A slip: the has() test dropped, every detection sets a new entry
mapUpsertBlind(m, key, val) == Append(m, [key |-> key, val |-> val])

\* if (!results.has(key)) results.set(key, val) else results.get(key).count++
mapUpsert(m, key, val) ==
  IF mapHas(m, key) THEN mapIncrement(m, key)
  ELSE Append(m, [key |-> key, val |-> val])

categoryOf(term, options) ==
  IF options.includeCategories THEN categorizeKeyword(term) ELSE "null"

\* Step 1 (forEach over the phrases found); acc = [m, threw]
RECURSIVE phrasePass(_, _, _, _)
phrasePass(acc, phrases, i, options) ==
  IF acc.threw \/ i > Len(phrases) THEN acc
  ELSE LET phrase     == phrases[i]
           normalized == IF options.normalizeSynonyms
                         THEN synonymOr(toLowerCase(phrase), phrase)
                         ELSE [t |-> "string", s |-> phrase]
       IN  IF normalized.t # "string"
           THEN [acc EXCEPT !.threw = TRUE]
           ELSE phrasePass(
                  [acc EXCEPT !.m = mapUpsert(acc.m, toLowerCase(normalized.s),
                     [keyword |-> normalized.s, count |-> 1, type |-> "phrase",
                      expansion |-> NoValue,
                      category |-> categoryOf(normalized.s, options)])],
                  phrases, i + 1, options)

\* The words of Step 2
wordsOf(text, options) ==
  LET keep(word) == /\ Len(word) >= options.minWordLength
                    /\ word \notin STOPWORDS
                    /\ ~isNumeric(word)
  IN  SelectSeq(splitWhitespace(replaceNonWord(toLowerCase(text))), keep)

isPartOfPhrase(m, word) ==
  \E i \in DOMAIN m :
    m[i].val.type = "phrase" /\ includes(toLowerCase(m[i].val.keyword), word)

\* Step 2 (forEach over the words)
RECURSIVE wordPass(_, _, _, _)
wordPass(acc, words, i, options) ==
  IF acc.threw \/ i > Len(words) THEN acc
  ELSE LET word == words[i]
       IN  IF isPartOfPhrase(acc.m, word) THEN wordPass(acc, words, i + 1, options)
           ELSE IF options.filterPersonNames /\ isPersonName(word)
                THEN wordPass(acc, words, i + 1, options)
           ELSE LET normalized == IF options.normalizeSynonyms
                                  THEN synonymOr(word, word)
                                  ELSE [t |-> "string", s |-> word]
                IN  IF normalized.t # "string"
                    THEN [acc EXCEPT !.threw = TRUE]
                    ELSE wordPass(
                           [acc EXCEPT !.m = mapUpsert(acc.m, toLowerCase(normalized.s),
                              [keyword |-> formatKeyword(normalized.s), count |-> 1,
                               type |-> "word", expansion |-> NoValue,
                               category |-> categoryOf(normalized.s, options)])],
                           words, i + 1, options)

\* Step 3 (forEach over the acronyms found)
RECURSIVE acronymPass(_, _, _, _)
acronymPass(acc, acronyms, i, options) ==
  IF acc.threw \/ i > Len(acronyms) THEN acc
  ELSE LET acr == acronyms[i]
       IN  acronymPass(
             [acc EXCEPT !.m = mapUpsert(acc.m, toLowerCase(acr),
                [keyword |-> acr, count |-> 1, type |-> "acronym",
                 expansion |-> acronymsGet(acr),
                 category |-> categoryOf(acr, options)])],
             acronyms, i + 1, options)

\* Array.prototype.sort((a, b) => b.count - a.count): a stable sort
\* (ECMAScript 2019), here by insertion behind the entries that do not sort
\* after the new one.
\* A slip: an unstable sort, an entry overtaking the entries of equal count
RECURSIVE insertByCountUnstable(_, _)
insertByCountUnstable(sorted, e) ==
  IF sorted = <<>> THEN <<e>>
  ELSE IF Head(sorted).count - e.count <= 0
       THEN <<e>> \o sorted
       ELSE <<Head(sorted)>> \o insertByCountUnstable(Tail(sorted), e)

RECURSIVE insertByCount(_, _)
insertByCount(sorted, e) ==
  IF sorted = <<>> THEN <<e>>
  ELSE IF Head(sorted).count - e.count < 0
       THEN <<e>> \o sorted
       ELSE <<Head(sorted)>> \o insertByCount(Tail(sorted), e)

RECURSIVE sortByCount(_, _)
sortByCount(entries, n) ==
  IF n = 0 THEN <<>>
  ELSE insertByCount(sortByCount(entries, n - 1), entries[n])

\* A slip: the cut one entry late
sliceToOneMore(s, end) == SubSeq(s, 1, IF end + 1 > Len(s) THEN Len(s) ELSE end + 1)

\* Array.prototype.slice(0, end)
sliceTo(s, end) ==
  LET e == IF end < 0 THEN (IF Len(s) + end < 0 THEN 0 ELSE Len(s) + end)
           ELSE IF end > Len(s) THEN Len(s) ELSE end
  IN  SubSeq(s, 1, e)

mapValues(m) == IF m = <<>> THEN <<>> ELSE [i \in 1..Len(m) |-> m[i].val]

\* ------------------------------------------------------------------------
\* JavaScript values handed to the extractors
\* ------------------------------------------------------------------------
JSString(s) == [t |-> "string", s |-> s, n |-> 0]

JSNumber(n) == [t |-> "number", s |-> NoValue, n |-> n]

JSBoolean(b) == [t |-> "boolean", s |-> NoValue, n |-> IF b THEN 1 ELSE 0]

JSNull == [t |-> "null", s |-> NoValue, n |-> 0]

JSUndefined == [t |-> "undefined", s |-> NoValue, n |-> 0]

JSObject == [t |-> "object", s |-> NoValue, n |-> 0]

\* ToBoolean
truthy(v) ==
  CASE v.t = "string"  -> Len(v.s) > 0
    [] v.t = "number"  -> v.n # 0
    [] v.t = "boolean" -> v.n = 1
    [] v.t = "object"  -> TRUE
    [] v.t = "array"   -> TRUE
    [] OTHER           -> FALSE

\* The return statement: the values of the Map, sorted by count and cut
sortedTop(m, options) ==
  [status |-> "returned", m |-> m,
   value |-> sliceTo(sortByCount(mapValues(m), Len(m)), options.maxKeywords)]

\* extractKeywords once the passes have run; acc = [m, threw]
passesDone(acc, options) ==
  IF acc.threw THEN [status |-> "threw", m |-> acc.m, value |-> <<>>]
  ELSE sortedTop(acc.m, options)

\* extractKeywords(text, options): [status, m, value] where m is the local
\* Map `results` when the passes end and value is what the call returns.
extractKeywords(text, options) ==
  IF ~truthy(text) \/ text.t # "string"
  THEN [status |-> "returned", m |-> <<>>, value |-> <<>>]
  ELSE passesDone(
         acronymPass(
           wordPass(
             phrasePass([m |-> <<>>, threw |-> FALSE], extractPhrases(text.s), 1, options),
             wordsOf(text.s, options), 1, options),
           extractAcronyms(text.s), 1, options),
         options)

\* normalizeKeyword: (keyword) => SYNONYMS[keyword.toLowerCase()] || keyword
normalizeKeyword(keyword) ==
  LET v == synonymOr(toLowerCase(keyword), keyword)
  IN  [threw |-> FALSE, s |-> v.s, t |-> v.t]

\* ------------------------------------------------------------------------
\* The v6.2 module of src/unnamed/part_008
\* ------------------------------------------------------------------------
\* String.prototype.trim
RECURSIVE trimStart(_)
trimStart(s) ==
  IF s # <<>> /\ Head(s) \in SpaceChars THEN trimStart(Tail(s)) ELSE s

RECURSIVE trimEnd(_)
trimEnd(s) ==
  IF s # <<>> /\ s[Len(s)] \in SpaceChars THEN trimEnd(SubSeq(s, 1, Len(s) - 1)) ELSE s

trim(s) == trimEnd(trimStart(s))

\* SYNONYMS[key] of the v6.2 table: canonical form, undefined, or inherited
synonymsGetV62(key) ==
  IF \E i \in DOMAIN SYNONYMS_V62 : SYNONYMS_V62[i][1] = key
  THEN [t |-> "string",
        s |-> SYNONYMS_V62[CHOOSE i \in DOMAIN SYNONYMS_V62 : SYNONYMS_V62[i][1] = key][2]]
  ELSE IF key \in OBJECT_PROTOTYPE_KEYS
       THEN [t |-> "object", s |-> NoValue]
       ELSE [t |-> "undefined", s |-> NoValue]

hasAcronymV62(key) == \E i \in DOMAIN ACRONYMS_V62 : ACRONYMS_V62[i][1] = key

\* expandAcronym(text): ACRONYMS[text.toLowerCase().trim()] || null
expandAcronym(text) ==
  LET lower == trim(toLowerCase(text))
  IN  IF hasAcronymV62(lower)
      THEN ACRONYMS_V62[CHOOSE i \in DOMAIN ACRONYMS_V62 : ACRONYMS_V62[i][1] = lower][2]
      ELSE NoValue

isStopword(word) == trim(toLowerCase(word)) \in STOPWORDS_V62

\* The rest of normalize once SYNONYMS has been consulted: the expansion of
\* an acronym, lower-cased, else the term; then `|| text` of the callers
expandedOr(normalized, text) ==
  LET expanded == expandAcronym(normalized)
  IN  IF expanded # NoValue THEN toLowerCase(expanded)
      ELSE IF normalized = <<>> THEN text ELSE normalized

\* normalize from `if (SYNONYMS[normalized])` on: [threw, s]. An inherited
\* member of SYNONYMS is truthy and no string: expandAcronym calls
\* toLowerCase on it, which throws.
synonymApplied(lower, text) ==
  LET syn == synonymsGetV62(lower)
  IN  IF syn.t = "object" THEN [threw |-> TRUE, s |-> NoValue]
      ELSE [threw |-> FALSE,
            s |-> expandedOr(IF syn.t = "string" THEN syn.s ELSE lower, text)]

\* normalize(text) || text
normalizeOr(text) ==
  IF text = <<>> THEN [threw |-> FALSE, s |-> text]
  ELSE synonymApplied(trim(toLowerCase(text)), text)

\* NAME_PATTERNS[0]: /^(mr|mrs|ms|dr|prof|shri|smt|km|justice|hon|adv)\s/i
\* on a lower-cased string
matchesTitleV62(lower) ==
  \E t \in TITLES_V62 :
    /\ startsWith(lower, t)
    /\ Len(lower) > Len(t)
    /\ lower[Len(t) + 1] \in SpaceChars

\* NAME_PATTERNS[1]: /\b(kumar|singh|...|grover)\b/i on a lower-cased
\* string (the flag i makes the case of the subject irrelevant)
surnameIn(lower) ==
  \E n \in SURNAMES_V62 :
    \E at \in 0..(Len(lower) - Len(n)) :
      /\ matchesAt(lower, n, at)
      /\ (at = 0 \/ lower[at] \notin WordChars)
      /\ (at + Len(n) = Len(lower) \/ lower[at + Len(n) + 1] \notin WordChars)

matchesSurnameV62(s) == surnameIn(toLowerCase(s))

\* words.every(w => /^[A-Z]/.test(w))
allCapitalized(words) ==
  \A i \in DOMAIN words : words[i] # <<>> /\ words[i][1] \in UpperSet

\* The tests of isPersonName on lower = text.toLowerCase().trim() and on
\* words = text.split(/\s+/)
looksLikeName(text, lower, words) ==
  \/ matchesTitleV62(lower)
  \/ surnameIn(lower)
  \/ /\ Len(words) >= 2
     /\ Len(words) <= 3
     /\ allCapitalized(words)
     /\ matchesSurnameV62(text)

isPersonNameV62(text) ==
  looksLikeName(text, trim(toLowerCase(text)), splitWhitespace(text))

\* keywords.set(key, (keywords.get(key) || 0) + 1)
countUp(m, key) ==
  IF mapHas(m, key) THEN mapIncrement(m, key)
  ELSE Append(m, [key |-> key, val |-> [keyword |-> key, count |-> 1]])

\* Step 1: the known phrases the lower-cased text includes, positions lo..hi
PhraseHeadV62 == [p \in DOMAIN KNOWN_PHRASES |-> <<KNOWN_PHRASES[p][1], KNOWN_PHRASES[p][2]>>]

RECURSIVE knownPhrasesIn(_, _, _, _)
knownPhrasesIn(textLower, pairs, lo, hi) ==
  IF lo > hi THEN <<>>
  ELSE IF lo = hi
       THEN IF PhraseHeadV62[lo] \in pairs /\ includes(textLower, KNOWN_PHRASES[lo])
            THEN <<KNOWN_PHRASES[lo]>> ELSE <<>>
  ELSE LET mid == (lo + hi) \div 2
       IN  knownPhrasesIn(textLower, pairs, lo, mid)
             \o knownPhrasesIn(textLower, pairs, mid + 1, hi)

\* keywords.set(normalized, ...) unless normalize threw; acc = [m, threw]
counted(acc, normalized) ==
  IF normalized.threw THEN [acc EXCEPT !.threw = TRUE]
  ELSE [acc EXCEPT !.m = countUp(acc.m, normalized.s)]

\* Steps 1 and 2: every term found is normalized and counted
RECURSIVE countTerms(_, _, _)
countTerms(acc, terms, i) ==
  IF acc.threw \/ i > Len(terms) THEN acc
  ELSE countTerms(counted(acc, normalizeOr(terms[i])), terms, i + 1)

\* Step 2: the matches of /\b[A-Z]{2,6}\b/g, lower-cased, that ACRONYMS knows
lowerEach(matches) ==
  IF matches = <<>> THEN <<>>
  ELSE [i \in 1..Len(matches) |-> toLowerCase(matches[i])]

acronymsIn(text) == SelectSeq(lowerEach(acronymMatchesFrom(text, 1)), hasAcronymV62)

\* text.toLowerCase().replace(/[^a-z0-9\s-]/g, ' ')
replaceNonAlnum(s) ==
  IF s = <<>> THEN <<>>
  ELSE [i \in 1..Len(s) |->
          IF s[i] \in LowerSet \cup DigitSet \cup SpaceChars \cup {"-"} THEN s[i] ELSE " "]

wordsOfV62(text, options) ==
  LET keep(w) == Len(w) >= options.minLength /\ ~isStopword(w)
  IN  SelectSeq(splitWhitespace(replaceNonAlnum(toLowerCase(text))), keep)

\* Step 3: a word that no key of the map includes is normalized and counted
RECURSIVE countWords(_, _, _)
countWords(acc, words, i) ==
  IF acc.threw \/ i > Len(words) THEN acc
  ELSE IF \E k \in DOMAIN acc.m : includes(acc.m[k].key, words[i])
       THEN countWords(acc, words, i + 1)
       ELSE countWords(counted(acc, normalizeOr(words[i])), words, i + 1)

\* Step 4: keywords.delete(keyword) for every key that looks like a name
dropNames(m) ==
  LET notName(e) == ~isPersonNameV62(e.key)
  IN  SelectSeq(m, notName)

DEFAULT_MIN_LENGTH == 3

DEFAULT_MAX_WORDS == 4

\* Step 1: the known phrases, normalized and counted
phraseStep(textLower) ==
  countTerms([m |-> <<>>, threw |-> FALSE],
             knownPhrasesIn(textLower, pairsOf(textLower), 1, Len(KNOWN_PHRASES)), 1)

\* Step 2, if (includeAcronyms)
acronymStep(acc, text, options) ==
  IF options.includeAcronyms THEN countTerms(acc, acronymsIn(text), 1) ELSE acc

\* The return statement: the entries of the Map, sorted by count
sortedEntries(kept) ==
  [status |-> "returned", m |-> kept, value |-> sortByCount(mapValues(kept), Len(kept))]

\* Step 4 and the return, unless a step threw
filtered(acc, options) ==
  IF acc.threw THEN [status |-> "threw", m |-> acc.m, value |-> <<>>]
  ELSE sortedEntries(IF options.filterNames THEN dropNames(acc.m) ELSE acc.m)

\* extractFromText(text, options): [status, m, value]
extractFromText(text, options) ==
  IF ~truthy(text)
  THEN [status |-> "returned", m |-> <<>>, value |-> <<>>]
  ELSE IF text.t # "string"
  THEN [status |-> "threw", m |-> <<>>, value |-> <<>>]
  ELSE filtered(countWords(acronymStep(phraseStep(toLowerCase(text.s)), text.s, options),
                           wordsOfV62(text.s, options), 1),
                options)

\* normalize(text): [threw, s], s = NoValue for null
normalize(text) ==
  IF text = <<>> THEN [threw |-> FALSE, s |-> NoValue]
  ELSE synonymApplied(trim(toLowerCase(text)), <<>>)

\* ------------------------------------------------------------------------
\* extractFromArticles: the keyword counts over a list of articles
\* ------------------------------------------------------------------------
\* An array of strings, as the keywords field of an article
JSArray(elements) == [t |-> "array", s |-> elements, n |-> 0]

\* Array.prototype.join(' ') of an array of strings
RECURSIVE joinSpace(_)
joinSpace(elements) ==
  IF elements = <<>> THEN <<>>
  ELSE IF Len(elements) = 1 THEN elements[1]
  ELSE elements[1] \o <<" ">> \o joinSpace(Tail(elements))

\* let text = article[field]; if (Array.isArray(text)) text = text.join(' ')
fieldText(value) ==
  IF value.t = "array" THEN JSString(joinSpace(value.s)) ELSE value

\* A slip: an array in place of the Set, every extraction pushed
setAddAgain(set, element) == Append(set, element)

\* Set.prototype.add: the elements in insertion order, each once
setAdd(set, element) ==
  IF \E i \in DOMAIN set : set[i] = element THEN set ELSE Append(set, element)

\* for (const { keyword } of extracted) articleKeywords.add(keyword)
RECURSIVE addExtracted(_, _, _)
addExtracted(set, extracted, k) ==
  IF k > Len(extracted) THEN set
  ELSE addExtracted(setAdd(set, extracted[k].keyword), extracted, k + 1)

\* The loop over the fields of one article; acc = [set, threw]
RECURSIVE articleKeywords(_, _, _, _)
articleKeywords(acc, article, options, f) ==
  IF acc.threw \/ f > Len(options.fields) THEN acc
  ELSE LET value == article[options.fields[f]]
       IN  IF ~truthy(value) THEN articleKeywords(acc, article, options, f + 1)
           ELSE LET extracted == extractFromText(fieldText(value), options.textOptions)
                IN  IF extracted.status = "threw"
                    THEN [acc EXCEPT !.threw = TRUE]
                    ELSE articleKeywords(
                           [acc EXCEPT !.set = addExtracted(acc.set, extracted.value, 1)],
                           article, options, f + 1)

\* article.url || article.id
articleRef(article) == IF truthy(article.url) THEN article.url ELSE article.id

\* A slip: the Set of articles replaced by the last article alone
countArticleLast(m, keyword, ref) ==
  LET present == IF mapHas(m, keyword) THEN m
                 ELSE Append(m, [key |-> keyword, val |-> [count |-> 0, articles |-> <<>>]])
      i       == CHOOSE i \in DOMAIN present : present[i].key = keyword
  IN  [present EXCEPT ![i].val.count = @ + 1, ![i].val.articles = <<ref>>]

\* globalKeywords: set the entry if absent, entry.count++, entry.articles.add
countArticle(m, keyword, ref) ==
  LET present == IF mapHas(m, keyword) THEN m
                 ELSE Append(m, [key |-> keyword, val |-> [count |-> 0, articles |-> <<>>]])
      i       == CHOOSE i \in DOMAIN present : present[i].key = keyword
  IN  [present EXCEPT ![i].val.count = @ + 1, ![i].val.articles = setAdd(@, ref)]

\* A slip: globalKeywords created inside the loop over the articles
RECURSIVE addToFresh(_, _, _, _)
addToFresh(m, set, ref, k) ==
  IF k > Len(set) THEN (IF k = 1 THEN <<>> ELSE m)
  ELSE addToFresh(countArticle(IF k = 1 THEN <<>> ELSE m, set[k], ref), set, ref, k + 1)

\* for (const keyword of articleKeywords)
RECURSIVE addToGlobal(_, _, _, _)
addToGlobal(m, set, ref, k) ==
  IF k > Len(set) THEN m
  ELSE addToGlobal(countArticle(m, set[k], ref), set, ref, k + 1)

\* A slip: > in place of >=
moreThan(m, minOccurrences) ==
  SelectSeq(m, LAMBDA e : e.val.count > minOccurrences)

\* The loop over the articles from the j-th on, found[j] the articleKeywords
\* of the j-th article, whether its extraction threw and its url || id;
\* acc = [m, threw]
RECURSIVE tableOf(_, _, _)
tableOf(acc, found, j) ==
  IF acc.threw \/ j > Len(found) THEN acc
  ELSE IF found[j].threw THEN [acc EXCEPT !.threw = TRUE]
  ELSE tableOf([acc EXCEPT !.m = addToGlobal(@, found[j].set, found[j].ref, 1)],
               found, j + 1)

\* .filter(([_, data]) => data.count >= minOccurrences)
atLeast(m, minOccurrences) ==
  SelectSeq(m, LAMBDA e : e.val.count >= minOccurrences)

\* .map(([keyword, data]) => ({ keyword, count, articles }))
aggregated(m) ==
  IF m = <<>> THEN <<>>
  ELSE [i \in 1..Len(m) |->
          [keyword |-> m[i].key, count |-> m[i].val.count, articles |-> m[i].val.articles]]

\* The return statement of extractFromArticles
topAggregated(m, options) ==
  LET kept == aggregated(atLeast(m, options.minOccurrences))
  IN  sliceTo(sortByCount(kept, Len(kept)), options.topN)

\* ------------------------------------------------------------------------
\* The service worker (src/sw.js): caches, routing and cache management
\* ------------------------------------------------------------------------
STATIC_CACHE == "policyradar-v2-static"

DATA_CACHE == "policyradar-v2-data"

HTML_CACHE == "policyradar-v2-html"

CacheNames == {STATIC_CACHE, DATA_CACHE, HTML_CACHE}

STATIC_ASSETS == <<
  <<"/">>,
  <<"/","i","n","d","e","x",".","h","t","m","l">>,
  <<"/","t","o","p","i","c","-","e","x","p","l","o","r","e","r",".","h","t","m","l">>,
  <<"/","k","n","o","w","l","e","d","g","e","-","g","r","a","p","h",".","h","t","m","l">>
>>

PREFETCH_URLS == <<<<"/","d","a","t","a","/","i","n","i","t","i","a","l",".","j","s","o","n">>, <<"/","d","a","t","a","/","p","u","b","l","i","c","_","d","a","t","a",".","j","s","o","n">>>>

CACHE_LIMITS ==
  (STATIC_CACHE :> 20) @@ (DATA_CACHE :> 5) @@ (HTML_CACHE :> 10)

DEFAULT_CACHE_LIMIT == 50

\* const limit = CACHE_LIMITS[cacheName] || 50
cacheLimit(cacheName) ==
  IF cacheName \in DOMAIN CACHE_LIMITS THEN CACHE_LIMITS[cacheName]
  ELSE DEFAULT_CACHE_LIMIT

STATIC_EXTENSIONS == {
  <<".","c","s","s">>,
  <<".","j","s">>,
  <<".","p","n","g">>,
  <<".","j","p","g">>,
  <<".","j","p","e","g">>,
  <<".","g","i","f">>,
  <<".","s","v","g">>,
  <<".","i","c","o">>,
  <<".","w","o","f","f">>,
  <<".","w","o","f","f","2">>
}

isDataRequest(pathname) ==
  startsWith(pathname, <<"/","d","a","t","a","/">>) /\ endsWith(pathname, <<".","j","s","o","n">>)

\* The request's Accept header includes text/html, or its URL ends in .html or /
isHTMLRequest(request) ==
  \/ request.acceptsHtml
  \/ endsWith(request.url, <<".","h","t","m","l">>)
  \/ endsWith(request.url, <<"/">>)

isStaticAsset(pathname) ==
  \E ext \in STATIC_EXTENSIONS : endsWith(pathname, ext)

\* The fetch listener's routing: the strategy and the cache of a request
routeOf(request) ==
  IF ~request.sameOrigin THEN [strategy |-> "none", cacheName |-> "none"]
  ELSE IF isDataRequest(request.url)
  THEN [strategy |-> "networkFirstWithFallback", cacheName |-> DATA_CACHE]
  ELSE IF isHTMLRequest(request)
  THEN [strategy |-> "networkFirstWithFallback", cacheName |-> HTML_CACHE]
  ELSE IF isStaticAsset(request.url)
  THEN [strategy |-> "cacheFirstWithNetwork", cacheName |-> STATIC_CACHE]
  ELSE [strategy |-> "none", cacheName |-> "none"]

\* The responses a page can be given
NoResponse == [source |-> "none", status |-> 0, cacheStatus |-> "none"]

NetworkResponse(status) == [source |-> "network", status |-> status, cacheStatus |-> "none"]

\* The cached response as caches.match gives it
CachedResponse == [source |-> "cache", status |-> 200, cacheStatus |-> "none"]

\* new Response(cached.body, ...) with X-Cache-Status: cached
TaggedCachedResponse == [source |-> "cache", status |-> 200, cacheStatus |-> "cached"]

\* new Response(..., { status: 503 })
OfflineResponse == [source |-> "offline", status |-> 503, cacheStatus |-> "none"]

\* response.ok
responseOk(response) == response.status >= 200 /\ response.status <= 299

\* cache.keys(): the request URLs of a cache, oldest first
cacheHas(keys, url) == \E i \in DOMAIN keys : keys[i] = url

\* caches.match(request): a GET request whose URL some cache holds
cachesMatch(caches, request) ==
  request.method = "GET" /\ \E c \in DOMAIN caches : cacheHas(caches[c], request.url)

\* keys.slice(0, keys.length - limit + 1), the entries addToCache deletes
toDelete(keys, limit) ==
  IF Len(keys) >= limit THEN SubSeq(keys, 1, Len(keys) - limit + 1) ELSE <<>>

\* cache.delete(key) for every key of a list
cacheDeleteAll(keys, deleted) ==
  SelectSeq(keys, LAMBDA k : ~cacheHas(deleted, k))

\* cache.put(request, response): the entry of the URL replaced or added
cachePut(keys, url) ==
  Append(SelectSeq(keys, LAMBDA k : k # url), url)

\* ------------------------------------------------------------------------
\* Inputs
\* ------------------------------------------------------------------------
MaxSegments == 2

MaxCap == 2

DEFAULT_MAX_KEYWORDS == 20

DEFAULT_MIN_WORD_LENGTH == 3

\* The pieces texts are built from, joined by single spaces.
Vocabulary == {
  <<"R","e","s","e","r","v","e"," ","B","a","n","k"," ","o","f"," ","I","n","d","i","a">>,
  <<"R","B","I">>,
  <<"E","l","e","c","t","r","i","c"," ","V","e","h","i","c","l","e">>,
  <<"C","C","I">>,
  <<"P","E">>,
  <<"D","P","D","P">>,
  <<"D","P","D","P","A">>,
  <<"A","R","C">>,
  <<"M","u","m","b","a","i">>,
  <<"M","o","n","d","a","y",",">>,
  <<"l","e","n","d","i","n","g">>,
  <<"c","o","n","s","t","r","u","c","t","o","r">>
}

RECURSIVE Joined(_)
Joined(k) ==
  IF k = 0 THEN {<<>>}
  ELSE IF k = 1 THEN Vocabulary
  ELSE {a \o <<" ">> \o b : a \in Joined(k - 1), b \in Vocabulary}

Texts == UNION {Joined(k) : k \in 0..MaxSegments}

NonStrings == {JSNull, JSUndefined, JSNumber(0), JSNumber(42),
               JSBoolean(FALSE), JSBoolean(TRUE), JSObject}

Inputs == {JSString(s) : s \in Texts} \cup NonStrings

DefaultOptions ==
  [maxKeywords |-> DEFAULT_MAX_KEYWORDS, minWordLength |-> DEFAULT_MIN_WORD_LENGTH,
   includeCategories |-> TRUE, filterPersonNames |-> TRUE, normalizeSynonyms |-> TRUE]

KeywordOptions ==
  {DefaultOptions}
    \cup {[DefaultOptions EXCEPT !.maxKeywords = k] : k \in 0..MaxCap}
    \cup {[DefaultOptions EXCEPT !.includeCategories = FALSE],
          [DefaultOptions EXCEPT !.filterPersonNames = FALSE],
          [DefaultOptions EXCEPT !.normalizeSynonyms = FALSE]}

\* ------------------------------------------------------------------------
\* The calls: a caller hands a value and options to an extractor, which runs
\* to completion and returns or throws.
\* ------------------------------------------------------------------------
VARIABLES fn, text, options, results, outcome, returned

vars == <<fn, text, options, results, outcome, returned>>

Init ==
  /\ fn = "extractKeywords"
  /\ text \in Inputs
  /\ options \in KeywordOptions
  /\ results = <<>>
  /\ outcome = "pending"
  /\ returned = <<>>

ExtractKeywords ==
  /\ fn = "extractKeywords"
  /\ outcome = "pending"
  /\ LET r == extractKeywords(text, options)
     IN  /\ results' = r.m
         /\ outcome' = r.status
         /\ returned' = r.value
  /\ UNCHANGED <<fn, text, options>>

Next == ExtractKeywords

Spec == Init /\ [][Next]_vars


\* The options of the single-text extractor of src/unnamed/part_008
DefaultTextOptions ==
  [minLength |-> DEFAULT_MIN_LENGTH, maxWords |-> DEFAULT_MAX_WORDS,
   includeAcronyms |-> TRUE, filterNames |-> TRUE]

TextOptions ==
  {DefaultTextOptions,
   [DefaultTextOptions EXCEPT !.includeAcronyms = FALSE],
   [DefaultTextOptions EXCEPT !.filterNames = FALSE]}

InitText ==
  /\ fn = "extractFromText"
  /\ text \in Inputs
  /\ options \in TextOptions
  /\ results = <<>>
  /\ outcome = "pending"
  /\ returned = <<>>

ExtractFromText ==
  /\ fn = "extractFromText"
  /\ outcome = "pending"
  /\ LET r == extractFromText(text, options)
     IN  /\ results' = r.m
         /\ outcome' = r.status
         /\ returned' = r.value
  /\ UNCHANGED <<fn, text, options>>

NextText == ExtractFromText

SpecText == InitText /\ [][NextText]_vars

\* ------------------------------------------------------------------------
\* Calls of extractKeywords on prose: lower-case and capitalized tokens,
\* a name, a phrase that overlaps itself, and a headline
\* ------------------------------------------------------------------------
ProseVocabulary == {
  <<"t","h","e">>,
  <<"r","b","i">>,
  <<"R","B","I">>,
  <<"s","a","i","d">>,
  <<"t","u","r","b","i","n","e">>,
  <<"R","a","j","e","s","h">>,
  <<"R","a","m","k","u","m","a","r">>,
  <<"A","P","A","P","A">>,
  <<"S","a","g","a","r","m","a","l","a">>
}

Headline ==
  <<"R","B","I"," ","a","n","n","o","u","n","c","e","s"," ","n","e","w"," ",
    "d","i","g","i","t","a","l"," ","l","e","n","d","i","n","g"," ","g","u",
    "i","d","e","l","i","n","e","s"," ","f","o","r"," ","N","B","F","C","s",
    " ","a","m","i","d"," ","r","i","s","i","n","g"," ","c","o","n","c","e",
    "r","n","s"," ","o","v","e","r"," ","n","o","n","-","p","e","r","f","o",
    "r","m","i","n","g"," ","a","s","s","e","t","s">>

RECURSIVE JoinedProse(_)
JoinedProse(k) ==
  IF k = 0 THEN {<<>>}
  ELSE IF k = 1 THEN ProseVocabulary
  ELSE {a \o <<" ">> \o b : a \in JoinedProse(k - 1), b \in ProseVocabulary}

ProseTexts == UNION {JoinedProse(k) : k \in 1..MaxSegments} \cup {Headline}

InitProse ==
  /\ fn = "extractKeywords"
  /\ text \in {JSString(s) : s \in ProseTexts}
  /\ options \in KeywordOptions
  /\ results = <<>>
  /\ outcome = "pending"
  /\ returned = <<>>

SpecProse == InitProse /\ [][Next]_vars

\* ------------------------------------------------------------------------
\* extractKeywords on every key of ACRONYMS, alone in the text
\* ------------------------------------------------------------------------
AcronymKeys == {ACRONYMS[i][1] : i \in DOMAIN ACRONYMS}

InitAcronymKeys ==
  /\ fn = "extractKeywords"
  /\ text \in {JSString(k) : k \in AcronymKeys}
  /\ options = DefaultOptions
  /\ results = <<>>
  /\ outcome = "pending"
  /\ returned = <<>>

SpecAcronymKeys == InitAcronymKeys /\ [][Next]_vars
\* ------------------------------------------------------------------------
\* extractFromArticles: the keyword counts over a list of articles. text holds
\* the articles, results the globalKeywords Map, the number of articles the
\* loop has scanned and whether an extraction threw.
\* ------------------------------------------------------------------------
MaxArticles == 2

DEFAULT_MIN_OCCURRENCES == 2

DEFAULT_TOP_N == 100

DEFAULT_FIELDS == <<"title", "summary", "keywords">>

Article(title, summary, keywords, url, id) ==
  [title |-> title, summary |-> summary, keywords |-> keywords, url |-> url, id |-> id]

ArticlePool == {
  Article(JSString(<<"R","B","I"," ","l","e","n","d","i","n","g"," ","R","B","I">>),
          JSString(<<"R","B","I">>),
          JSArray(<< <<"l","e","n","d","i","n","g">>, <<"D","P","D","P">> >>),
          JSString(<<"u","1">>), JSNumber(1)),
  Article(JSString(<<"D","P","D","P">>),
          JSUndefined,
          JSArray(<< <<"R","B","I">> >>),
          JSUndefined, JSUndefined),
  Article(JSString(<<"M","L"," ","l","e","n","d","i","n","g">>),
          JSString(<<"m","a","c","h","i","n","e"," ","l","e","a","r","n","i","n","g">>),
          JSArray(<<>>),
          JSString(<<"u","1">>), JSNumber(3)),
  Article(JSString(<<"l","e","n","d","i","n","g">>),
          JSString(<<"c","o","n","s","t","r","u","c","t","o","r">>),
          JSUndefined,
          JSUndefined, JSNumber(4)),
  Article(JSString(<<>>),
          JSNull,
          JSNumber(42),
          JSUndefined, JSNumber(5))
}

RECURSIVE ArticleLists(_)
ArticleLists(n) ==
  IF n = 0 THEN {<<>>}
  ELSE ArticleLists(n - 1)
         \cup {Append(l, a) : l \in {k \in ArticleLists(n - 1) : Len(k) = n - 1},
                              a \in ArticlePool}

DefaultArticleOptions ==
  [fields |-> DEFAULT_FIELDS, minOccurrences |-> DEFAULT_MIN_OCCURRENCES,
   topN |-> DEFAULT_TOP_N, textOptions |-> DefaultTextOptions]

ArticleOptions ==
  {DefaultArticleOptions,
   [DefaultArticleOptions EXCEPT !.minOccurrences = 1],
   [DefaultArticleOptions EXCEPT !.topN = 1],
   [DefaultArticleOptions EXCEPT !.fields = <<"title", "summary">>, !.minOccurrences = 1],
   [DefaultArticleOptions EXCEPT !.fields = <<"title", "title">>, !.minOccurrences = 1]}

InitArticles ==
  /\ fn = "extractFromArticles"
  /\ text \in ArticleLists(MaxArticles)
  /\ options \in ArticleOptions
  /\ results = [m |-> <<>>, scanned |-> 0, threw |-> FALSE]
  /\ outcome = "pending"
  /\ returned = <<>>

\* One iteration of the loop over the articles
ScanArticle ==
  /\ fn = "extractFromArticles"
  /\ outcome = "pending"
  /\ results.scanned < Len(text)
  /\ LET article == text[results.scanned + 1]
         found   == articleKeywords([set |-> <<>>, threw |-> FALSE], article, options, 1)
     IN  IF found.threw
         THEN /\ results' = [results EXCEPT !.threw = TRUE]
              /\ outcome' = "threw"
         ELSE /\ results' = [results EXCEPT
                               !.m = addToGlobal(@, found.set, articleRef(article), 1),
                               !.scanned = @ + 1]
              /\ outcome' = outcome
  /\ UNCHANGED <<fn, text, options, returned>>

\* The loop is over: filter, map, sort, slice
ReturnAggregated ==
  /\ fn = "extractFromArticles"
  /\ outcome = "pending"
  /\ results.scanned = Len(text)
  /\ returned' = topAggregated(results.m, options)
  /\ outcome' = "returned"
  /\ UNCHANGED <<fn, text, options, results>>

NextArticles == ScanArticle \/ ReturnAggregated

SpecArticles == InitArticles /\ [][NextArticles]_vars
\* ------------------------------------------------------------------------
\* Several extraction calls in flight at once. Each variable holds one value
\* per call: fn[c] the extractor, results[c] the call's local Map and whether
\* a pass threw, outcome[c] the last pass completed. A step runs one pass of
\* one call; JavaScript runs each call to completion, which is one of the
\* interleavings.
\* ------------------------------------------------------------------------
MaxCalls == 2

Calls == 1..MaxCalls

CallTexts == {
  <<"D","P","D","P"," ","l","e","n","d","i","n","g"," ","R","B","I">>,
  <<"c","o","n","s","t","r","u","c","t","o","r"," ","M","L">>
}

Extractors == {"extractKeywords", "extractFromText"}

optionsOf(extractor) ==
  IF extractor = "extractKeywords" THEN DefaultOptions ELSE DefaultTextOptions

InitCalls ==
  /\ fn \in [Calls -> Extractors]
  /\ text \in [Calls -> {JSString(s) : s \in CallTexts}]
  /\ options = [c \in Calls |-> optionsOf(fn[c])]
  /\ results = [c \in Calls |-> [m |-> <<>>, threw |-> FALSE]]
  /\ outcome = [c \in Calls |-> "pending"]
  /\ returned = [c \in Calls |-> <<>>]

\* A slip: the Map declared at module level, one per extractor, shared by
\* all calls of that extractor
mapOfShared(c) == IF fn[c] = "extractKeywords" THEN 1 ELSE 2

\* const results = new Map() / const keywords = new Map(): the Map of call c
\* is the call's own
mapOf(c) == c

\* new Map() and the first pass over the text
PhraseStep(c) ==
  /\ outcome[c] = "pending"
  /\ results' =
       [results EXCEPT ![mapOf(c)] =
          IF fn[c] = "extractKeywords"
          THEN phrasePass([m |-> <<>>, threw |-> FALSE],
                          extractPhrases(text[c].s), 1, options[c])
          ELSE phraseStep(toLowerCase(text[c].s))]
  /\ outcome' = [outcome EXCEPT ![c] = "phrases"]
  /\ UNCHANGED <<fn, text, options, returned>>

\* The word pass: second in extractKeywords, third in extractFromText
WordStep(c) ==
  /\ \/ fn[c] = "extractKeywords" /\ outcome[c] = "phrases"
     \/ fn[c] = "extractFromText" /\ outcome[c] = "acronyms"
  /\ results' =
       [results EXCEPT ![mapOf(c)] =
          IF fn[c] = "extractKeywords"
          THEN wordPass(results[mapOf(c)], wordsOf(text[c].s, options[c]), 1, options[c])
          ELSE countWords(results[mapOf(c)], wordsOfV62(text[c].s, options[c]), 1)]
  /\ outcome' = [outcome EXCEPT ![c] = "words"]
  /\ UNCHANGED <<fn, text, options, returned>>

\* The acronym pass: third in extractKeywords, second in extractFromText
AcronymStep(c) ==
  /\ \/ fn[c] = "extractKeywords" /\ outcome[c] = "words"
     \/ fn[c] = "extractFromText" /\ outcome[c] = "phrases"
  /\ results' =
       [results EXCEPT ![mapOf(c)] =
          IF fn[c] = "extractKeywords"
          THEN acronymPass(results[mapOf(c)], extractAcronyms(text[c].s), 1, options[c])
          ELSE acronymStep(results[mapOf(c)], text[c].s, options[c])]
  /\ outcome' = [outcome EXCEPT ![c] = "acronyms"]
  /\ UNCHANGED <<fn, text, options, returned>>

\* The return statement, or the exception a pass raised
ReturnStep(c) ==
  /\ \/ fn[c] = "extractKeywords" /\ outcome[c] = "acronyms"
     \/ fn[c] = "extractFromText" /\ outcome[c] = "words"
  /\ LET r == IF fn[c] = "extractKeywords"
              THEN passesDone(results[mapOf(c)], options[c])
              ELSE filtered(results[mapOf(c)], options[c])
     IN  /\ outcome' = [outcome EXCEPT ![c] = r.status]
         /\ returned' = [returned EXCEPT ![c] = r.value]
  /\ UNCHANGED <<fn, text, options, results>>

NextCalls ==
  \E c \in Calls : PhraseStep(c) \/ WordStep(c) \/ AcronymStep(c) \/ ReturnStep(c)

SpecCalls == InitCalls /\ [][NextCalls]_vars

\* ------------------------------------------------------------------------
\* Calls of categorizeKeyword (public API) on the terms of the tables and
\* on a few other strings
\* ------------------------------------------------------------------------
CategorizeInputs ==
  {POLICY_PHRASES[p] : p \in DOMAIN POLICY_PHRASES}
    \cup {ACRONYMS[a][1] : a \in DOMAIN ACRONYMS}
    \cup {SYNONYMS[s][2] : s \in DOMAIN SYNONYMS}
    \cup Vocabulary
    \cup {<<>>, <<"a">>, <<"x">>, <<"T","A","X">>, <<"z","z","z">>}

InitCategorize ==
  /\ fn = "categorizeKeyword"
  /\ text \in {JSString(s) : s \in CategorizeInputs}
  /\ options = DefaultOptions
  /\ results = <<>>
  /\ outcome = "pending"
  /\ returned = <<>>

CategorizeKeyword ==
  /\ fn = "categorizeKeyword"
  /\ outcome = "pending"
  /\ returned' = categorizeKeyword(text.s)
  /\ outcome' = "returned"
  /\ UNCHANGED <<fn, text, options, results>>

NextCategorize == CategorizeKeyword

SpecCategorize == InitCategorize /\ [][NextCategorize]_vars

\* ------------------------------------------------------------------------
\* categorizeKeyword on every term of every category's term list
\* ------------------------------------------------------------------------
TermsOf(category) ==
  UNION {{KEYWORD_CATEGORIES[c].terms[k] : k \in DOMAIN KEYWORD_CATEGORIES[c].terms} :
           c \in {d \in DOMAIN KEYWORD_CATEGORIES : KEYWORD_CATEGORIES[d].category = category}}

ListedTerms ==
  UNION {TermsOf(KEYWORD_CATEGORIES[c].category) : c \in DOMAIN KEYWORD_CATEGORIES}

InitListedTerms ==
  /\ fn = "categorizeKeyword"
  /\ text \in {JSString(s) : s \in ListedTerms}
  /\ options = DefaultOptions
  /\ results = <<>>
  /\ outcome = "pending"
  /\ returned = <<>>

SpecListedTerms == InitListedTerms /\ [][NextCategorize]_vars
\* ------------------------------------------------------------------------
\* Calls of the normalization utilities: normalize of src/unnamed/part_008
\* and normalizeKeyword of src/policy-keywords.js, each applied to a term and
\* then again to what it returned. results holds the values returned so far.
\* ------------------------------------------------------------------------
NormalizeInputs ==
  {SYNONYMS_V62[i][1] : i \in DOMAIN SYNONYMS_V62}
    \cup {ACRONYMS_V62[i][1] : i \in DOMAIN ACRONYMS_V62}
    \cup {SYNONYMS[i][1] : i \in DOMAIN SYNONYMS}
    \cup {ACRONYMS[i][1] : i \in DOMAIN ACRONYMS}
    \cup Vocabulary

InitNormalize ==
  /\ fn \in {"normalize", "normalizeKeyword"}
  /\ text \in {JSString(s) : s \in NormalizeInputs}
  /\ options = DefaultOptions
  /\ results = <<>>
  /\ outcome = "pending"
  /\ returned = <<>>

\* The argument of the next call: the term, then the value last returned
NextArgument == IF results = <<>> THEN text.s ELSE results[Len(results)]

Normalize ==
  /\ fn = "normalize"
  /\ outcome # "threw"
  /\ Len(results) < 2
  /\ LET r == normalize(NextArgument)
     IN  IF r.threw
         THEN outcome' = "threw" /\ UNCHANGED <<results, returned>>
         ELSE /\ outcome' = "returned"
              /\ results' = Append(results, r.s)
              /\ returned' = r.s
  /\ UNCHANGED <<fn, text, options>>

\* A value returned that is no string (an inherited member of SYNONYMS) has
\* no toLowerCase: the next call throws.
NormalizeKeyword ==
  /\ fn = "normalizeKeyword"
  /\ outcome \notin {"threw", "returnedObject"}
  /\ Len(results) < 2
  /\ LET r == normalizeKeyword(NextArgument)
     IN  /\ outcome' = IF r.t = "string" THEN "returned" ELSE "returnedObject"
         /\ results' = Append(results, r.s)
         /\ returned' = r.s
  /\ UNCHANGED <<fn, text, options>>

NextNormalize == Normalize \/ NormalizeKeyword

SpecNormalize == InitNormalize /\ [][NextNormalize]_vars

\* ------------------------------------------------------------------------
\* The reading list (src/enhancements.js): results holds the items Map (its
\* URLs, oldest first) and what localStorage holds; fn, text and returned
\* hold the last operation, its argument and what it returned, options the
\* items before it, outcome the number of operations so far. A URL is a
\* number, 0 the missing or empty URL.
\* ------------------------------------------------------------------------
MaxOperations == 3

MAX_ITEMS == 100

\* window.state.allArticles: the URLs of the articles on the page
AllArticles == {1, 2, MAX_ITEMS, MAX_ITEMS + 1}

\* The URLs the operations are called with
CalledUrls == {1, 2, MAX_ITEMS + 1, MAX_ITEMS + 2}

\* load(): the lists localStorage can hold, of at most maxItems entries
StoredLists ==
  {<<>>, [i \in 1..(MAX_ITEMS - 1) |-> i], [i \in 1..MAX_ITEMS |-> i]}

itemsHas(items, url) == \E i \in DOMAIN items : items[i] = url

\* this.items.delete(url)
itemsDelete(items, url) == SelectSeq(items, LAMBDA u : u # url)

\* this.items.set(url, ...): a URL already present keeps its place
itemsSet(items, url) == IF itemsHas(items, url) THEN items ELSE Append(items, url)

\* if (this.items.size >= maxItems) this.items.delete(oldest)
evicted(items) == IF Len(items) >= MAX_ITEMS THEN Tail(items) ELSE items

\* add(article): [items, value]
addArticle(items, url) ==
  IF url = 0 THEN [items |-> items, value |-> FALSE]
  ELSE [items |-> itemsSet(evicted(items), url), value |-> TRUE]

\* remove(url): [items, value]
removeUrl(items, url) ==
  [items |-> itemsDelete(items, url), value |-> itemsHas(items, url)]

\* toggle(url): [items, value]
toggleUrl(items, url) ==
  IF itemsHas(items, url) THEN removeUrl(items, url)
  ELSE IF url \in AllArticles THEN addArticle(items, url)
  ELSE [items |-> items, value |-> FALSE]

InitReadingList ==
  /\ fn = "load"
  /\ text = 0
  /\ options = <<>>
  /\ \E stored \in StoredLists : results = [items |-> stored, stored |-> stored]
  /\ outcome = 0
  /\ returned = FALSE

\* The operation done: the items, what save() stored, the return value
Done(operation, url, after, saved) ==
  /\ fn' = operation
  /\ text' = url
  /\ options' = results.items
  /\ results' = [items |-> after.items,
                 stored |-> IF saved THEN after.items ELSE results.stored]
  /\ outcome' = outcome + 1
  /\ returned' = after.value

Add ==
  /\ outcome < MaxOperations
  /\ \E url \in CalledUrls \cup {0} :
       Done("add", url, addArticle(results.items, url), url # 0)

Remove ==
  /\ outcome < MaxOperations
  /\ \E url \in CalledUrls :
       Done("remove", url, removeUrl(results.items, url), itemsHas(results.items, url))

Toggle ==
  /\ outcome < MaxOperations
  /\ \E url \in CalledUrls :
       LET after == toggleUrl(results.items, url)
       IN  Done("toggle", url, after, after.value)

Clear ==
  /\ outcome < MaxOperations
  /\ Done("clear", 0, [items |-> <<>>, value |-> FALSE], TRUE)

NextReadingList == Add \/ Remove \/ Toggle \/ Clear

SpecReadingList == InitReadingList /\ [][NextReadingList]_vars
\* ------------------------------------------------------------------------
\* The service worker at work: results holds the caches (the request URLs of
\* each, oldest first); every other variable holds one value per handler run:
\* fn[h] the strategy running, text[h] its request, options[h] its local
\* variables, outcome[h] the await it stands at, returned[h] the response
\* given to the page. A step runs one handler from one await to the next.
\* ------------------------------------------------------------------------
MaxHandlers == 2

Handlers == 1..MaxHandlers

Digits == <<"0", "1", "2", "3", "4", "5", "6", "7", "8", "9">>

Numeral(i) ==
  IF i < 10 THEN <<Digits[i + 1]>> ELSE <<Digits[(i \div 10) + 1], Digits[(i % 10) + 1]>>

\* The caches after install and earlier fetches that filled them to their limits
FilledCaches ==
  (STATIC_CACHE :> STATIC_ASSETS \o
     [i \in 1..(cacheLimit(STATIC_CACHE) - Len(STATIC_ASSETS)) |->
        <<"/","s">> \o Numeral(i) \o <<".","c","s","s">>])
  @@ (DATA_CACHE :> [i \in 1..cacheLimit(DATA_CACHE) |-> <<"/","d","a","t","a","/">> \o Numeral(i) \o <<".","j","s","o","n">>])
  @@ (HTML_CACHE :> [i \in 1..cacheLimit(HTML_CACHE) |-> <<"/","p">> \o Numeral(i) \o <<".","h","t","m","l">>])

\* The caches after install: cache.addAll(STATIC_ASSETS)
InstalledCaches ==
  (STATIC_CACHE :> STATIC_ASSETS) @@ (DATA_CACHE :> <<>>) @@ (HTML_CACHE :> <<>>)

Request(url, method, acceptsHtml, sameOrigin) ==
  [url |-> url, method |-> method, acceptsHtml |-> acceptsHtml, sameOrigin |-> sameOrigin]

NoRequest == Request(<<>>, "none", FALSE, FALSE)

RequestPool == {
  Request(<<"/","d","a","t","a","/","x",".","j","s","o","n">>, "GET", FALSE, TRUE),
  Request(<<"/","d","a","t","a","/","y",".","j","s","o","n">>, "GET", FALSE, TRUE),
  Request(<<"/","a","b","o","u","t",".","h","t","m","l">>, "GET", TRUE, TRUE),
  Request(<<"/","n","e","w","s","/">>, "GET", FALSE, TRUE),
  Request(<<"/","s","u","b","m","i","t","/">>, "POST", TRUE, TRUE),
  Request(<<"/","a","p","p",".","j","s">>, "GET", FALSE, TRUE),
  Request(<<"/","a","p","p",".","c","s","s">>, "GET", FALSE, TRUE),
  Request(<<"/","a","p","i">>, "GET", FALSE, TRUE),
  Request(<<"/","a","p","p",".","j","s">>, "GET", FALSE, FALSE)
}

NetworkStatuses == {200, 404}

NoLocals == [cacheName |-> "none", keys |-> <<>>, network |-> "none",
             response |-> NoResponse, i |-> 0]

InitWorker ==
  /\ results \in {InstalledCaches, FilledCaches}
  /\ fn = [h \in Handlers |-> "none"]
  /\ text = [h \in Handlers |-> NoRequest]
  /\ options = [h \in Handlers |-> NoLocals]
  /\ outcome = [h \in Handlers |-> "idle"]
  /\ returned = [h \in Handlers |-> NoResponse]

\* The fetch listener: route the request to its strategy, or leave it alone
FetchEvent(h) ==
  /\ outcome[h] = "idle"
  /\ \E request \in RequestPool :
       LET route == routeOf(request)
       IN  /\ text' = [text EXCEPT ![h] = request]
           /\ fn' = [fn EXCEPT ![h] = route.strategy]
           /\ options' = [options EXCEPT ![h].cacheName = route.cacheName,
                                         ![h].network = "pending"]
           /\ outcome' = [outcome EXCEPT ![h] =
                CASE route.strategy = "networkFirstWithFallback" -> "fetch"
                  [] route.strategy = "cacheFirstWithNetwork" -> "match"
                  [] OTHER -> "done"]
  /\ UNCHANGED <<results, returned>>

\* cacheFirstWithNetwork: const cached = await caches.match(request)
CacheFirstMatch(h) ==
  /\ fn[h] = "cacheFirstWithNetwork"
  /\ outcome[h] = "match"
  /\ IF cachesMatch(results, text[h])
     THEN /\ returned' = [returned EXCEPT ![h] = CachedResponse]
          /\ fn' = [fn EXCEPT ![h] = "refreshCache"]
     ELSE UNCHANGED <<returned, fn>>
  /\ outcome' = [outcome EXCEPT ![h] = "fetch"]
  /\ UNCHANGED <<text, options, results>>

\* await fetch(request) resolves
NetworkResolves(h) ==
  /\ fn[h] \in {"networkFirstWithFallback", "cacheFirstWithNetwork", "refreshCache"}
  /\ outcome[h] = "fetch"
  /\ \E status \in NetworkStatuses :
       LET response == NetworkResponse(status)
       IN  /\ options' = [options EXCEPT ![h].network = "resolved",
                                         ![h].response = response]
           /\ IF responseOk(response)
              THEN /\ outcome' = [outcome EXCEPT ![h] = "keys"]
                   /\ UNCHANGED returned
              ELSE /\ outcome' = [outcome EXCEPT ![h] = "done"]
                   /\ returned' = IF fn[h] = "refreshCache" THEN returned
                                  ELSE [returned EXCEPT ![h] = response]
  /\ UNCHANGED <<fn, text, results>>

\* await fetch(request) rejects
NetworkFails(h) ==
  /\ fn[h] \in {"networkFirstWithFallback", "cacheFirstWithNetwork", "refreshCache"}
  /\ outcome[h] = "fetch"
  /\ options' = [options EXCEPT ![h].network = "failed"]
  /\ outcome' = [outcome EXCEPT ![h] =
       IF fn[h] = "networkFirstWithFallback" THEN "fallback" ELSE "done"]
  /\ returned' = IF fn[h] = "cacheFirstWithNetwork"
                 THEN [returned EXCEPT ![h] = OfflineResponse]
                 ELSE returned
  /\ UNCHANGED <<fn, text, results>>

\* addToCache: const keys = await cache.keys(), the limit test
CacheKeys(h) ==
  /\ outcome[h] = "keys"
  /\ LET keys == results[options[h].cacheName]
     IN  /\ options' = [options EXCEPT ![h].keys = keys]
         /\ outcome' = [outcome EXCEPT ![h] =
              IF Len(keys) >= cacheLimit(options[h].cacheName) THEN "evict" ELSE "put"]
  /\ UNCHANGED <<fn, text, results, returned>>

\* addToCache: await Promise.all(toDelete.map(key => cache.delete(key)))
Evict(h) ==
  /\ outcome[h] = "evict"
  /\ LET cacheName == options[h].cacheName
     IN  results' = [results EXCEPT ![cacheName] =
           cacheDeleteAll(@, toDelete(options[h].keys, cacheLimit(cacheName)))]
  /\ outcome' = [outcome EXCEPT ![h] = "put"]
  /\ UNCHANGED <<fn, text, options, returned>>

\* addToCache: await cache.put(request, response) resolves, and the strategy
\* returns the network response
CachePut(h) ==
  /\ outcome[h] = "put"
  /\ text[h].method = "GET"
  /\ results' = [results EXCEPT ![options[h].cacheName] = cachePut(@, text[h].url)]
  /\ outcome' = [outcome EXCEPT ![h] = "done"]
  /\ returned' = IF fn[h] = "refreshCache" THEN returned
                 ELSE [returned EXCEPT ![h] = options[h].response]
  /\ UNCHANGED <<fn, text, options>>

\* addToCache: await cache.put(request, response) rejects (a request that is
\* not a GET, or the storage quota exceeded), and the strategy's catch runs
CachePutRejects(h) ==
  /\ outcome[h] = "put"
  /\ outcome' = [outcome EXCEPT ![h] =
       IF fn[h] = "networkFirstWithFallback" THEN "fallback" ELSE "done"]
  /\ returned' = IF fn[h] = "cacheFirstWithNetwork"
                 THEN [returned EXCEPT ![h] = OfflineResponse]
                 ELSE returned
  /\ UNCHANGED <<fn, text, options, results>>

\* networkFirstWithFallback: the catch block
Fallback(h) ==
  /\ fn[h] = "networkFirstWithFallback"
  /\ outcome[h] = "fallback"
  /\ returned' = [returned EXCEPT ![h] =
       IF cachesMatch(results, text[h]) THEN TaggedCachedResponse ELSE OfflineResponse]
  /\ outcome' = [outcome EXCEPT ![h] = "done"]
  /\ UNCHANGED <<fn, text, options, results>>

\* The message listener, case 'PREFETCH_DATA': prefetchData begins
PrefetchMessage(h) ==
  /\ outcome[h] = "idle"
  /\ fn' = [fn EXCEPT ![h] = "prefetchData"]
  /\ options' = [options EXCEPT ![h].cacheName = DATA_CACHE, ![h].i = 1]
  /\ outcome' = [outcome EXCEPT ![h] = "prefetch"]
  /\ UNCHANGED <<text, results, returned>>

\* prefetchData: const response = await fetch(url), resolved or rejected
PrefetchFetch(h) ==
  /\ fn[h] = "prefetchData"
  /\ outcome[h] = "prefetch"
  /\ \/ \E status \in NetworkStatuses :
          IF responseOk(NetworkResponse(status))
          THEN /\ outcome' = [outcome EXCEPT ![h] = "prefetchPut"]
               /\ UNCHANGED options
          ELSE /\ options' = [options EXCEPT ![h].i = @ + 1]
               /\ outcome' = [outcome EXCEPT ![h] =
                    IF options[h].i = Len(PREFETCH_URLS) THEN "done" ELSE "prefetch"]
     \/ /\ outcome' = [outcome EXCEPT ![h] = "done"]
        /\ UNCHANGED options
  /\ UNCHANGED <<fn, text, results, returned>>

\* prefetchData: await cache.put(url, response)
PrefetchPut(h) ==
  /\ fn[h] = "prefetchData"
  /\ outcome[h] = "prefetchPut"
  /\ results' = [results EXCEPT ![DATA_CACHE] = cachePut(@, PREFETCH_URLS[options[h].i])]
  /\ options' = [options EXCEPT ![h].i = @ + 1]
  /\ outcome' = [outcome EXCEPT ![h] =
       IF options[h].i = Len(PREFETCH_URLS) THEN "done" ELSE "prefetch"]
  /\ UNCHANGED <<fn, text, returned>>

NextWorker ==
  \E h \in Handlers :
    \/ FetchEvent(h)
    \/ CacheFirstMatch(h)
    \/ NetworkResolves(h)
    \/ NetworkFails(h)
    \/ CacheKeys(h)
    \/ Evict(h)
    \/ CachePut(h)
    \/ CachePutRejects(h)
    \/ Fallback(h)
    \/ PrefetchMessage(h)
    \/ PrefetchFetch(h)
    \/ PrefetchPut(h)

SpecWorker == InitWorker /\ [][NextWorker]_vars
\* ------------------------------------------------------------------------
\* What a state shows of the text: where phrases, tokens and acronyms lie.
\* A span <<at, len>> is the piece of the text of length len at the 0-based
\* position at.
\* ------------------------------------------------------------------------
Returned == outcome = "returned"

IsText == text.t = "string"

LowerInput == toLowerCase(text.s)

\* The phrases of the table that occur in the lower-cased text
MatchedPhrases ==
  LET pairs == pairsOf(LowerInput)
  IN  {p \in DOMAIN POLICY_PHRASES :
         PhraseHead[p] \in pairs /\ includes(LowerInput, LowerPhrases[p])}

PhraseSpans(p) ==
  {<<at, Len(LowerPhrases[p])>> :
     at \in {a \in 0..Len(LowerInput) : matchesAt(LowerInput, LowerPhrases[p], a)}}

\* The maximal runs of the characters of `chars` in s
RunSpans(s, chars) ==
  LET starts == {i \in 1..Len(s) : s[i] \in chars /\ (i = 1 \/ s[i - 1] \notin chars)}
      endOf(i) == Min({j \in i..Len(s) : j = Len(s) \/ s[j + 1] \notin chars})
  IN  {<<i - 1, endOf(i) - i + 1>> : i \in starts}

SpanText(s, sp) == SubSeq(s, sp[1] + 1, sp[1] + sp[2])

Within(inner, outer) ==
  outer[1] <= inner[1] /\ inner[1] + inner[2] <= outer[1] + outer[2]

\* The whitespace-delimited tokens the word pass sees, and each one's text
TokenSpans == RunSpans(replaceNonWord(LowerInput), WordChars \cup {"-"})

TokenAt(sp) == SpanText(LowerInput, sp)

\* The tokens of 2 to 6 upper-case letters that are keys of the acronym table
AcronymSpans ==
  {sp \in RunSpans(text.s, WordChars) :
     /\ sp[2] >= 2
     /\ sp[2] <= 6
     /\ \A k \in 1..sp[2] : text.s[sp[1] + k] \in UpperSet
     /\ hasAcronym(SpanText(text.s, sp))}

CoveredByPhrase(sp) ==
  \E p \in MatchedPhrases : \E ps \in PhraseSpans(p) : Within(sp, ps)

\* The key a term is filed under when synonym lookup is applied to it
ConceptOf(term) == toLowerCase(synonymOr(toLowerCase(term), term).s)

TermKey(term) == IF options.normalizeSynonyms THEN ConceptOf(term) ELSE toLowerCase(term)

NotCut == Len(results) <= options.maxKeywords

HasEntry(type, lowerKeyword) ==
  \E i \in DOMAIN returned :
    returned[i].type = type /\ toLowerCase(returned[i].keyword) = lowerKeyword

\* ------------------------------------------------------------------------
\* Claims
\* ------------------------------------------------------------------------

\* C1: whatever the extractor, a call with null, undefined, the empty string
\* or a non-string value returns an empty sequence and throws nothing.
Malformed(v) == v.t # "string" \/ v.s = <<>>

C1_MalformedReturnsEmpty ==
  (Malformed(text) /\ outcome # "pending")
    => (outcome = "returned" /\ returned = <<>>)

\* C2: for every phrase matched in the phrase pass, no word token of the text
\* that lies inside the matched phrase appears as a separate Word-type entry
\* of the result, also when synonym normalization replaces the phrase.
C2_PhraseSuppressesWords ==
  (Returned /\ IsText) =>
    \A p \in MatchedPhrases : \A ps \in PhraseSpans(p) : \A ts \in TokenSpans :
      Within(ts, ps) => ~HasEntry("word", TokenAt(ts))

\* C3: an all-uppercase token of 2 to 6 letters that is a key of the acronym
\* table and is not covered by a phrase match yields an Acronym entry with
\* its expansion, and never a Word entry (results that the cap does not cut).
C3_AcronymBeforeWord ==
  (Returned /\ IsText /\ NotCut) =>
    \A sp \in AcronymSpans :
      ~CoveredByPhrase(sp) =>
        /\ \E i \in DOMAIN returned :
             /\ returned[i].type = "acronym"
             /\ returned[i].keyword = SpanText(text.s, sp)
             /\ returned[i].expansion = acronymsGet(SpanText(text.s, sp))
        /\ ~HasEntry("word", TokenAt(sp))

\* The places of the text that some pass detects and files under key
Occurrences(key) ==
  UNION {PhraseSpans(p) : p \in {q \in MatchedPhrases : TermKey(POLICY_PHRASES[q]) = key}}
    \cup {ts \in TokenSpans : TermKey(TokenAt(ts)) = key}
    \cup {sp \in AcronymSpans : toLowerCase(SpanText(text.s, sp)) = key}

\* C4: one occurrence of a term in the text is counted by at most one pass:
\* the count of an entry is at most the number of distinct places of the
\* text filed under its key.
C4_OccurrenceCountedOnce ==
  (Returned /\ IsText) =>
    \A i \in DOMAIN results :
      results[i].val.count <= Cardinality(Occurrences(results[i].key))

\* The mentions of a concept: the phrase matches, acronym tokens and kept
\* words of the text whose lower-cased form maps to the canonical form c
Mentions(c) ==
  LET words == wordsOf(text.s, options)
  IN  UNION {PhraseSpans(p) : p \in {q \in MatchedPhrases : ConceptOf(POLICY_PHRASES[q]) = c}}
        \cup {sp \in AcronymSpans : ConceptOf(SpanText(text.s, sp)) = c}
        \cup {ts \in TokenSpans :
                /\ \E k \in DOMAIN words : words[k] = TokenAt(ts)
                /\ ConceptOf(TokenAt(ts)) = c}

EntriesOf(c) == {i \in DOMAIN returned : ConceptOf(returned[i].keyword) = c}

\* C5: with normalizeSynonyms, when the text holds two mentions that map to
\* the same canonical form, the result (not cut by the cap) has exactly one
\* entry for that concept, and its count is at least 2.
C5_SynonymsMerge ==
  (Returned /\ IsText /\ options.normalizeSynonyms /\ NotCut) =>
    \A i \in DOMAIN results :
      LET c == ConceptOf(results[i].val.keyword)
      IN  Cardinality(Mentions(c)) >= 2 =>
            /\ Cardinality(EntriesOf(c)) = 1
            /\ \A j \in EntriesOf(c) : returned[j].count >= 2

\* C6: with normalizeSynonyms, the dedup key of every entry, whichever pass
\* made it, is the synonym-normalized term, so an acronym entry and a word
\* or phrase entry never stand for the same canonical form.
C6_SynonymsInEveryPass ==
  (Returned /\ IsText /\ options.normalizeSynonyms) =>
    /\ \A i \in DOMAIN results : results[i].key = ConceptOf(results[i].val.keyword)
    /\ \A i, j \in DOMAIN results :
         (results[i].val.type = "acronym" /\ results[j].val.type # "acronym")
           => ConceptOf(results[i].val.keyword) # ConceptOf(results[j].val.keyword)

\* C7: in every result no two entries have the same lower-cased key and
\* every entry has a count of at least 1.
C7_UniqueKeys ==
  Returned =>
    /\ \A i, j \in DOMAIN results : results[i].key = results[j].key => i = j
    /\ \A i, j \in DOMAIN returned :
         toLowerCase(returned[i].keyword) = toLowerCase(returned[j].keyword) => i = j
    /\ \A i \in DOMAIN returned : returned[i].count >= 1

\* C7 witness: a repeated detection happened beside another entry
C7_Witness ==
  /\ Returned
  /\ Len(returned) >= 2
  /\ \E i \in DOMAIN returned : returned[i].count >= 2

PositionInMap(e) == CHOOSE k \in DOMAIN results : results[k].val = e

\* C8: the returned sequence is ordered by descending count, and entries of
\* equal count keep the order in which they were inserted into the map.
C8_SortedStable ==
  Returned =>
    \A i, j \in DOMAIN returned :
      i < j =>
        /\ returned[i].count >= returned[j].count
        /\ returned[i].count = returned[j].count
             => PositionInMap(returned[i]) < PositionInMap(returned[j])

\* C8 witness: the sort moved an entry forward and left a tie in map order
C8_Witness ==
  /\ Returned
  /\ \E i, j \in DOMAIN results :
       i < j /\ results[i].val.count < results[j].val.count
  /\ \E i, j \in DOMAIN returned :
       i < j /\ returned[i].count = returned[j].count

\* C9: at most maxKeywords entries are returned, and every entry left out
\* has a count not greater than the count of every entry returned.
C9_CapRespected ==
  Returned =>
    /\ Len(returned) <= options.maxKeywords
    /\ \A k \in DOMAIN results :
         (\A i \in DOMAIN returned : returned[i] # results[k].val)
           => \A i \in DOMAIN returned : results[k].val.count <= returned[i].count

\* C9 witness: the cap cut a result that had more entries, of unequal counts
C9_Witness ==
  /\ Returned
  /\ options.maxKeywords >= 1
  /\ Len(returned) = options.maxKeywords
  /\ Len(results) > options.maxKeywords
  /\ \E k \in DOMAIN results : results[k].val.count < returned[1].count

\* C10: a text token that is a member of the stopword set never appears as
\* a keyword entry of the result, whichever pass could produce it.
C10_StopwordsExcluded ==
  (Returned /\ IsText) =>
    \A ts \in TokenSpans :
      TokenAt(ts) \in STOPWORDS =>
        \A i \in DOMAIN returned : toLowerCase(returned[i].keyword) # TokenAt(ts)

\* The text of a token as it stands in the text (TokenAt is lower-cased)
OriginalAt(sp) == SpanText(text.s, sp)

\* The keys of the acronym table that the text holds only in lower case:
\* some token spells the key in lower case, no token is the upper-case key,
\* and no other phrase of the text stands for it
LowerCaseOnly ==
  {ts \in TokenSpans :
     /\ OriginalAt(ts) = TokenAt(ts)
     /\ hasAcronym(toUpperCase(TokenAt(ts)))
     /\ \A sp \in AcronymSpans : toLowerCase(SpanText(text.s, sp)) # TokenAt(ts)
     /\ \A p \in MatchedPhrases :
          LowerPhrases[p] # TokenAt(ts) => ConceptOf(POLICY_PHRASES[p]) # TokenAt(ts)}

\* C11: acronym detection is case-sensitive: a lower-case occurrence of an
\* acronym such as "rbi" in prose yields no entry for the acronym; only the
\* upper-case token does.
C11_LowerCaseNoAcronym ==
  (Returned /\ IsText) =>
    \A ts \in LowerCaseOnly :
      \A i \in DOMAIN returned : toLowerCase(returned[i].keyword) # TokenAt(ts)

\* C12: a text in which every whitespace-delimited token is a member of the
\* stopword set yields an empty result, without error.
AllStopwords ==
  /\ text.s # <<>>
  /\ \A w \in {splitWhitespace(LowerInput)[i] : i \in DOMAIN splitWhitespace(LowerInput)} :
       w \in STOPWORDS

C12_AllStopwordsEmpty ==
  (IsText /\ AllStopwords /\ outcome # "pending")
    => (outcome = "returned" /\ returned = <<>>)

\* The categories of KEYWORD_CATEGORIES, in declaration order
CategoryNames == {KEYWORD_CATEGORIES[c].category : c \in DOMAIN KEYWORD_CATEGORIES}

\* The fixed enumeration of policy domains, with its fallback
CATEGORY_ENUMERATION ==
  {"Finance & Banking", "Taxation", "Trade & Commerce", "Digital & Technology",
   "Infrastructure", "Energy & Environment", "Labour & Employment", "Healthcare",
   "Education", "Agriculture", "Corporate & Securities", "Governance & Politics",
   "Civil Liberties", "General", "Other"}

\* C13: with includeCategories, every returned entry has a category of the
\* fixed enumeration (the thirteen policy domains or the General/Other
\* fallback), the fallback when no category term list matches.
C13_CategoryInEnumeration ==
  (Returned /\ options.includeCategories) =>
    \A i \in DOMAIN returned : returned[i].category \in CATEGORY_ENUMERATION

\* a occurs in b as a contiguous piece
IsSubstring(a, b) == \E i \in 1..(Len(b) - Len(a) + 1) : SubSeq(b, i, i + Len(a) - 1) = a

\* The table positions of the categories with a term that is a substring
\* of the lower-cased keyword or has it as a substring
MatchingCategories(keyword) ==
  {c \in DOMAIN KEYWORD_CATEGORIES :
     \E k \in DOMAIN KEYWORD_CATEGORIES[c].terms :
       \/ IsSubstring(toLowerCase(KEYWORD_CATEGORIES[c].terms[k]), toLowerCase(keyword))
       \/ IsSubstring(toLowerCase(keyword), toLowerCase(KEYWORD_CATEGORIES[c].terms[k]))}

C15_PersonNamesFiltered ==
  (Returned /\ IsText /\ options.filterPersonNames) =>
    \A ts \in TokenSpans :
      isPersonName(OriginalAt(ts)) => ~HasEntry("word", TokenAt(ts))

\* C16: for the headline "RBI announces new digital lending guidelines for
\* NBFCs amid rising concerns over non-performing assets" and default options
\* the result has RBI as an Acronym entry with the expansion "Reserve Bank of
\* India", an Acronym entry NBFC, an entry NPA, and no entry for "amid",
\* "over", "rising" or "concerns".
C16_HeadlineExample ==
  (Returned /\ text = JSString(Headline) /\ options = DefaultOptions) =>
    /\ \E i \in DOMAIN returned :
         /\ returned[i].keyword = <<"R","B","I">>
         /\ returned[i].type = "acronym"
         /\ returned[i].expansion =
              <<"R","e","s","e","r","v","e"," ","B","a","n","k"," ","o","f"," ","I","n","d","i","a">>
    /\ \E i \in DOMAIN returned :
         returned[i].keyword = <<"N","B","F","C">> /\ returned[i].type = "acronym"
    /\ \E i \in DOMAIN returned : returned[i].keyword = <<"N","P","A">>
    /\ \A i \in DOMAIN returned :
         toLowerCase(returned[i].keyword) \notin
           {<<"a","m","i","d">>,
            <<"o","v","e","r">>,
            <<"r","i","s","i","n","g">>,
            <<"c","o","n","c","e","r","n","s">>}

\* How many elements of the sequence s equal x
CountOf(s, x) == Cardinality({i \in DOMAIN s : s[i] = x})

\* C17: the phrase pass counts, for every phrase of the table, every
\* occurrence of the lower-cased phrase in the lower-cased text, overlapping
\* occurrences counted separately, one count per occurrence.
C17_EveryOccurrenceCounted ==
  (Returned /\ IsText) =>
    \A p \in DOMAIN POLICY_PHRASES :
      CountOf(extractPhrases(text.s), POLICY_PHRASES[p]) = Cardinality(PhraseSpans(p))

\* C18: normalization is idempotent: normalizing an already normalized
\* keyword returns it unchanged.
C18_NormalizeIdempotent ==
  (fn \in {"normalize", "normalizeKeyword"} /\ Len(results) = 2)
    => results[2] = results[1]

\* What each extractor returns for each text when it runs alone
Alone ==
  [e \in Extractors |->
     [s \in CallTexts |->
        IF e = "extractKeywords"
        THEN extractKeywords(JSString(s), optionsOf(e))
        ELSE extractFromText(JSString(s), optionsOf(e))]]

YieldingFields(article, keyword) ==
  {f \in DOMAIN options.fields :
     /\ truthy(article[options.fields[f]])
     /\ LET extracted == extractFromText(fieldText(article[options.fields[f]]),
                                         options.textOptions).value
        IN  \E k \in DOMAIN extracted : extracted[k].keyword = keyword}

\* The articles among the first n in which some selected field yields the keyword
ArticlesYielding(keyword, n) ==
  {j \in 1..n : YieldingFields(text[j], keyword) # {}}

\* C20: in extractFromArticles the count of a keyword is the number of scanned
\* articles in which some selected field yields the keyword, each article
\* adding at most one, so the count never exceeds the number of articles
\* scanned; during the scan for every entry of globalKeywords, and at the
\* return for every entry returned.
C20_CountedOncePerArticle ==
  /\ \A i \in DOMAIN results.m :
       /\ results.m[i].val.count
            = Cardinality(ArticlesYielding(results.m[i].key, results.scanned))
       /\ results.m[i].val.count <= results.scanned
  /\ outcome = "returned" =>
       \A i \in DOMAIN returned :
         /\ returned[i].count = Cardinality(ArticlesYielding(returned[i].keyword, Len(text)))
         /\ returned[i].count <= Len(text)

\* C20 witness: with the default fields, a keyword returned with the count
\* of two different articles, found in two fields of one of them
C20_Witness ==
  /\ outcome = "returned"
  /\ options.fields = DEFAULT_FIELDS
  /\ Len(text) = 2
  /\ text[1] # text[2]
  /\ \E i \in DOMAIN returned :
       /\ returned[i].count = 2
       /\ \E j \in DOMAIN text :
            Cardinality(YieldingFields(text[j], returned[i].keyword)) >= 2

\* The entries of globalKeywords with at least minOccurrences articles
Frequent == {i \in DOMAIN results.m : results.m[i].val.count >= options.minOccurrences}

C22_CountsNeverDecrease ==
  [][\A i \in DOMAIN results.m :
       \E j \in DOMAIN results'.m :
         /\ results'.m[j].key = results.m[i].key
         /\ results'.m[j].val.count >= results.m[i].val.count]_vars

\* C22 witness: after the second article one keyword has grown to two
\* articles and another has kept the count the first article gave it
C22_Witness ==
  /\ results.scanned = 2
  /\ \E i, j \in DOMAIN results.m :
       /\ results.m[i].val.count = 2
       /\ results.m[j].val.count = 1
       /\ YieldingFields(text[1], results.m[j].key) # {}

\* articleKeywords, the exception and the identifier of every article
Found ==
  [j \in DOMAIN text |->
     LET f == articleKeywords([set |-> <<>>, threw |-> FALSE], text[j], options, 1)
     IN  [set |-> f.set, threw |-> f.threw, ref |-> articleRef(text[j])]]

\* The table as a mapping: keyword -> article-count and set of identifiers
AsTable(m) ==
  {[keyword |-> m[i].key, count |-> m[i].val.count,
    articles |-> {m[i].val.articles[k] : k \in DOMAIN m[i].val.articles}] :
     i \in DOMAIN m}

\* The table the loop builds from the articles found, taken in the order p
TableIn(found, p) ==
  tableOf([m |-> <<>>, threw |-> FALSE],
          [j \in 1..Len(p) |-> found[p[j]]], 1)

\* The associative merge of two tables: counts added, identifier sets united
mergeTables(a, b) ==
  LET keys == {e.keyword : e \in a \cup b}
      entriesIn(t, k) == {e \in t : e.keyword = k}
      countIn(t, k) == IF entriesIn(t, k) = {} THEN 0 ELSE (CHOOSE e \in entriesIn(t, k) : TRUE).count
      idsIn(t, k) == IF entriesIn(t, k) = {} THEN {} ELSE (CHOOSE e \in entriesIn(t, k) : TRUE).articles
  IN  {[keyword |-> k, count |-> countIn(a, k) + countIn(b, k),
        articles |-> idsIn(a, k) \cup idsIn(b, k)] : k \in keys}

C24_WordCountAccumulates ==
  (outcome = "returned" /\ text.t = "string") =>
    LET words == wordsOfV62(text.s, options)
    IN  \A k \in DOMAIN words :
          \A i \in DOMAIN returned :
            returned[i].keyword = words[k] =>
              returned[i].count >= Cardinality({j \in DOMAIN words : words[j] = words[k]})

\* C25: the service worker's cache size limits: in every state each cache
\* holds at most its configured number of entries (static 20, data 5, HTML 10).
C25_CacheLimitsHold ==
  \A c \in DOMAIN results : Len(results[c]) <= CACHE_LIMITS[c]

\* C26: in networkFirstWithFallback, whenever the network fetch resolved the
\* response given to the page is that network response; the cached copy or
\* the 503 offline response is given only when the fetch itself failed.
C26_NetworkResponseReturned ==
  \A h \in DOMAIN fn :
    (fn[h] = "networkFirstWithFallback" /\ outcome[h] = "done") =>
      /\ options[h].network = "resolved" => returned[h] = options[h].response
      /\ returned[h].source \in {"cache", "offline"} => options[h].network = "failed"

\* C27: in the table built by extractFromArticles the set of article
\* identifiers recorded for a keyword has exactly as many members as the
\* keyword's article-count, in the table and in every returned entry.
C27_IdentifierPerCountedArticle ==
  /\ \A i \in DOMAIN results.m :
       Len(results.m[i].val.articles) = results.m[i].val.count
  /\ outcome = "returned" =>
       \A i \in DOMAIN returned : Len(returned[i].articles) = returned[i].count

\* C28: every key of the acronym table is detectable: for a text that is the
\* key alone, spelled as in the table, extractAcronyms returns the key and
\* extractKeywords returns an entry for it (of any type, in any letter case).
C28_AcronymKeysDetectable ==
  (outcome = "returned" /\ text.s \in AcronymKeys) =>
    /\ \E k \in DOMAIN extractAcronyms(text.s) : extractAcronyms(text.s)[k] = text.s
    /\ \E i \in DOMAIN returned :
         toLowerCase(returned[i].keyword) = toLowerCase(text.s)

\* C29: Civil Liberties is a priority category: every term of the Civil
\* Liberties term list, passed to categorizeKeyword, is categorized as
\* 'Civil Liberties' and not captured by a category declared earlier.
C29_CivilLibertiesFirst ==
  (outcome = "returned" /\ text.s \in TermsOf("Civil Liberties")) =>
    returned = "Civil Liberties"

\* The entries an operation removed from the list
RemovedByLast == {options[i] : i \in DOMAIN options} \ {results.items[i] : i \in DOMAIN results.items}

\* C30: reading list capacity: the list never holds more than maxItems
\* entries, and an add removes an existing entry only when the list was at
\* maxItems and the added URL was not in it; re-adding a URL that is present
\* removes no entry.
C30_CapacityAndEviction ==
  /\ Len(results.items) <= MAX_ITEMS
  /\ (fn = "add" /\ RemovedByLast # {}) =>
       /\ Len(options) >= MAX_ITEMS
       /\ ~itemsHas(options, text)
====
